---- MODULE Spec2Model ----
(***************************************************************************)
(* Agent Mesh: the DAG scheduler (AgentMesh.executePlan over the DAG API   *)
(* of Shaka: buildDAG, getReadyTasks, markTaskComplete, isDAGComplete) and *)
(* the request lock of AgentMesh.processRequest.                           *)
(*                                                                         *)
(* SpecRun  : one executePlan(plan) run on an ExecutionPlan as             *)
(*            Shaka.createExecutionPlan returns it (dag.nodes is a Map).   *)
(* Spec     : AgentMesh.processRequest as the mesh runs it, the plan       *)
(*            reaching executePlan through JSON.stringify / JSON.parse.    *)
(***************************************************************************)
EXTENDS Integers, Sequences, FiniteSets, TLC

VARIABLES
    builtPlan,      \* history: the ExecutionPlan as createExecutionPlan returned it
    plan,           \* the ExecutionPlan executePlan works on: [tasks, dag]
    pc,             \* position of executePlan: "idle" | "loop" | "await" | "returned" | "threw"
    readyNodes,     \* executePlan: the node ids of the current batch
    executions,     \* executePlan: the promises of the current batch, by position
    results,        \* executePlan: the results list
    warned,         \* executePlan: logger.warn('No ready nodes but DAG not complete ...') was called
    batchNo,        \* history: number of batches that dispatched an execution
    batchOf,        \* history: node id -> the batch it was dispatched in (0: never)
    reached,        \* history: node id -> the statuses among completed, failed it was given
    isProcessing,   \* AgentMesh.isProcessing
    activePlan,     \* AgentMesh.state.activePlan
    conversation,   \* York.conversationHistory, as [role, request]
    call,           \* caller -> position and outcome of its processRequest call
    planning,       \* Shaka.createExecutionPlan: position, generator responses, locals
    satellite,      \* a satellite instance: its state, subscribers and execute call
    meshEvents,     \* AgentMesh: its event subscribers and the last event emitted
    york,           \* York: conversation history, context slices, metrics, evictions
    atlas,          \* Atlas: connectionState and the position of execute / executeToolWithRetry
    punkRecords,    \* PunkRecords: the store, the two indices and the addDocument calls
    lilith          \* Lilith: the issues of a critique, its score and approval

vars == <<builtPlan, plan, pc, readyNodes, executions, results, warned, batchNo, batchOf,
          reached, isProcessing, activePlan, conversation, call, planning, satellite,
          meshEvents, york, atlas, punkRecords, lilith>>

runVars == <<builtPlan, plan, pc, readyNodes, executions, results, warned, batchNo, batchOf,
            reached>>
meshVars == <<isProcessing, activePlan, conversation, call>>
\* The components outside a processRequest run.
\* Atlas, PunkRecords and Lilith.
serviceVars == <<atlas, punkRecords, lilith>>
componentVars == <<planning, satellite, meshEvents, york, serviceVars>>

(***************************************************************************)
(* Bounds of the model.                                                    *)
(***************************************************************************)
MaxTasks == 3       \* tasks in a planning response
MaxEdges == 2       \* dependency entries in a planning response, all tasks together
MaxCalls == 3       \* processRequest calls

(***************************************************************************)
(* Helpers on sequences.                                                   *)
(***************************************************************************)
Range(s) == {s[i] : i \in 1..Len(s)}

RECURSIVE SeqMap(_, _)
\* [f[s[1]], ..., f[s[n]]] for a function f
SeqMap(f, s) == IF s = <<>> THEN <<>> ELSE <<f[Head(s)]>> \o SeqMap(f, Tail(s))

(***************************************************************************)
(* The planning response: PlanningResult['tasks'].                         *)
(***************************************************************************)
\* nodeId = `node_${index}`
NodeId(index) == "node_" \o ToString(index)

\* uuidv4(): a fresh id per task; never the empty string
TaskUuid(index) == "uuid_" \o ToString(index)

\* The satellites getSatellite knows.
KnownSatellites == {"shaka", "lilith", "edison", "pythagoras", "atlas", "york"}

\* The satellite strings of a planning response: a known id and an unknown one.
KnownSatellite == "edison"
UnknownSatellite == "vegapunk"

\* The task descriptions of a planning response: free text, or text that reads
\* like the id of the task's node.
FreeText == "write the code"

\* The dependency entries of a response with n tasks, as a flat list of
\* <<task position, description depended on>>, the tasks in order.
IsEdgeList(e, n) ==
    /\ e \in [DOMAIN e -> (1..n) \X {NodeId(i) : i \in 0..(n - 1)}]
    /\ \A i \in 1..(Len(e) - 1) : e[i][1] <= e[i + 1][1]

RECURSIVE DepsOf(_, _)
\* task.dependencies of the task at position i, in the order given
DepsOf(e, i) ==
    IF e = <<>> THEN <<>>
    ELSE (IF Head(e)[1] = i THEN <<Head(e)[2]>> ELSE <<>>) \o DepsOf(Tail(e), i)

\* A task list planning yields: n tasks with the dependency entries e, each
\* task described by its node's id and given to a known satellite, except the
\* one at position `odd` (if any): that one is described in free text
\* (kind 1) or names an unknown satellite (kind 2).
PlanningTasks(n, odd, kind, e) ==
    [i \in 1..n |->
        [description |-> IF i = odd /\ kind = 1 THEN FreeText ELSE NodeId(i - 1),
         satellite |-> IF i = odd /\ kind = 2 THEN UnknownSatellite ELSE KnownSatellite,
         dependencies |-> DepsOf(e, i)]]

\* The planning responses of the model, as the parameters of PlanningTasks.
PlanningInputs(n, odd, kind, e) ==
    /\ odd = 0 => kind = 1
    /\ IsEdgeList(e, n)

(***************************************************************************)
(* Shaka.buildDAG                                                          *)
(***************************************************************************)
NoResult == [none |-> TRUE]

\* descToId: Map.set keeps the last index for a repeated description
DescToId(tasks) ==
    [d \in {tasks[i].description : i \in 1..Len(tasks)} |->
        NodeId((CHOOSE i \in 1..Len(tasks) :
                    /\ tasks[i].description = d
                    /\ \A j \in 1..Len(tasks) : tasks[j].description = d => j <= i) - 1)]

RECURSIVE ResolveDeps(_, _)
\* the dependencies of a node: each description resolved, unknown ones dropped
ResolveDeps(descToId, deps) ==
    IF deps = <<>> THEN <<>>
    ELSE (IF Head(deps) \in DOMAIN descToId THEN <<descToId[Head(deps)]>> ELSE <<>>)
            \o ResolveDeps(descToId, Tail(deps))

RECURSIVE Occurrences(_, _)
Occurrences(s, x) ==
    IF s = <<>> THEN 0
    ELSE (IF Head(s) = x THEN 1 ELSE 0) + Occurrences(Tail(s), x)

RECURSIVE Repeat(_, _)
Repeat(x, k) == IF k = 0 THEN <<>> ELSE <<x>> \o Repeat(x, k - 1)

RECURSIVE DependentsOnce(_, _, _)
\* Variant: a dependent is pushed once, however often it names the node.
DependentsOnce(deps, id, index) ==
    IF index > Len(deps) THEN <<>>
    ELSE (IF Occurrences(deps[index], id) > 0 THEN <<NodeId(index - 1)>> ELSE <<>>)
            \o DependentsOnce(deps, id, index + 1)

RECURSIVE DependentsOf(_, _, _)
\* depNode.dependents.push(nodeId): pushed while the tasks are walked in order,
\* once per dependency entry that resolves to the node
DependentsOf(deps, id, index) ==
    IF index > Len(deps) THEN <<>>
    ELSE Repeat(NodeId(index - 1), Occurrences(deps[index], id))
            \o DependentsOf(deps, id, index + 1)

buildDAG(tasks) ==
    LET descToId == DescToId(tasks)
        deps == [i \in 1..Len(tasks) |-> ResolveDeps(descToId, tasks[i].dependencies)]
        ids == [i \in 1..Len(tasks) |-> NodeId(i - 1)]
        index(id) == CHOOSE i \in 1..Len(tasks) : ids[i] = id
        entries ==
            [id \in Range(ids) |->
                [id |-> id,
                 taskId |-> "",
                 satelliteId |-> tasks[index(id)].satellite,
                 status |-> IF deps[index(id)] = <<>> THEN "ready" ELSE "pending",
                 dependencies |-> deps[index(id)],
                 dependents |-> DependentsOf(deps, id, 1),
                 result |-> NoResult]]
    IN  [nodes |-> [isMap |-> TRUE, order |-> ids, entries |-> entries],
         rootNodes |-> SelectSeq(ids, LAMBDA id : entries[id].dependencies = <<>>),
         leafNodes |-> SelectSeq(ids, LAMBDA id : entries[id].dependents = <<>>)]

(***************************************************************************)
(* Shaka.createExecutionPlan: the SatelliteTasks and the DAG of a plan.    *)
(***************************************************************************)
\* The text the generator returns, as response.match(/\{[\s\S]*\}/) and
\* JSON.parse see it: no braces at all, braces that do not parse, or an
\* object, which has a tasks list or has none.
NoJson == [json |-> "none", hasTasks |-> FALSE, tasks |-> <<>>]
InvalidJson == [json |-> "invalid", hasTasks |-> FALSE, tasks |-> <<>>]
ObjectWithoutTasks == [json |-> "object", hasTasks |-> FALSE, tasks |-> <<>>]
ObjectWithTasks(tasks) == [json |-> "object", hasTasks |-> TRUE, tasks |-> tasks]

\* The fallback of analyzAndPlan: the whole input, for edison, no dependencies.
FallbackTasks(userInput) ==
    <<[description |-> userInput, satellite |-> "edison", dependencies |-> <<>>]>>

\* analyzAndPlan: the parsed object as it is (a cast), or the fallback when
\* there is no match or JSON.parse throws.
analyzAndPlan(response, userInput) ==
    IF response.json = "object"
    THEN [hasTasks |-> response.hasTasks, tasks |-> response.tasks]
    ELSE [hasTasks |-> TRUE, tasks |-> FallbackTasks(userInput)]

\* reflectOnPlan: the task list the plan's tasks are made from.
reflectOnPlan(tasks, response) ==
    IF Len(tasks) <= 2 THEN tasks
    ELSE IF response.json = "object" /\ response.hasTasks /\ Len(response.tasks) > 0
         THEN response.tasks
         ELSE tasks

\* The plan: the DAG of the planning tasks, the SatelliteTasks of the
\* reflected ones.
createExecutionPlan(planningTasks, reflectedTasks) ==
    [tasks |-> [i \in 1..Len(reflectedTasks) |->
                    [id |-> TaskUuid(i),
                     satelliteId |-> reflectedTasks[i].satellite,
                     description |-> reflectedTasks[i].description,
                     dependencies |-> reflectedTasks[i].dependencies]],
     dag |-> buildDAG(planningTasks)]

\* this.state.activePlan = undefined; no plan in hand
NoPlan == [undefined |-> TRUE]

\* No createExecutionPlan call under way.
PlanningIdle == [pc |-> "idle"]

\* The components a specification leaves out, at rest.
SatelliteIdle == [pc |-> "unused"]
MeshEventsIdle == [pc |-> "unused"]
YorkIdle == [pc |-> "unused"]
AtlasIdle == [pc |-> "unused"]
PunkRecordsIdle == [pc |-> "unused"]
LilithIdle == [pc |-> "unused"]
\* Atlas, PunkRecords and Lilith take no part.
ServicesIdle ==
    /\ atlas = AtlasIdle
    /\ punkRecords = PunkRecordsIdle
    /\ lilith = LilithIdle

(***************************************************************************)
(* Shaka.getReadyTasks, markTaskComplete, isDAGComplete                    *)
(***************************************************************************)
\* Variant: `some` for `every`.
someDepComplete(entries, id) ==
    \E k \in 1..Len(entries[id].dependencies) :
        LET depId == entries[id].dependencies[k]
        IN  depId \in DOMAIN entries /\ entries[depId].status = "completed"

\* Variant: a failed dependency counts as done.
allDepsSettled(entries, id) ==
    \A k \in 1..Len(entries[id].dependencies) :
        LET depId == entries[id].dependencies[k]
        IN  depId \in DOMAIN entries /\ entries[depId].status \in {"completed", "failed"}

\* getReadyTasks: node.dependencies.every(depId => nodes.get(depId)?.status === 'completed')
allDepsComplete(entries, id) ==
    \A k \in 1..Len(entries[id].dependencies) :
        LET depId == entries[id].dependencies[k]
        IN  depId \in DOMAIN entries /\ entries[depId].status = "completed"

\* Variant: the dependent is promoted as soon as one dependency completes.
dependentUnblocked(entries, depId) == TRUE

\* markTaskComplete: depNode.dependencies.every(d => nodes.get(d)?.status === 'completed')
dependentDepsComplete(entries, depId) ==
    \A k \in 1..Len(entries[depId].dependencies) :
        LET d == entries[depId].dependencies[k]
        IN  d \in DOMAIN entries /\ entries[d].status = "completed"

\* The ready list, in Map order, and the DAG with the promotions made on the way.
getReadyTasks(dag) ==
    LET entries == dag.nodes.entries
        isReady(id) ==
            \/ entries[id].status = "ready"
            \/ entries[id].status = "pending" /\ allDepsComplete(entries, id)
    IN  [ready |-> SelectSeq(dag.nodes.order, isReady),
         dag |-> [dag EXCEPT !.nodes.entries =
                    [id \in DOMAIN entries |->
                        IF isReady(id) THEN [entries[id] EXCEPT !.status = "ready"]
                        ELSE entries[id]]]]

markTaskComplete(dag, nodeId, result) ==
    IF nodeId \notin DOMAIN dag.nodes.entries THEN dag
    ELSE
        LET entries == dag.nodes.entries
            marked == [entries EXCEPT
                         ![nodeId].status = IF result.success THEN "completed" ELSE "failed",
                         ![nodeId].result = result]
            promoted(depId) ==
                /\ result.success
                /\ depId \in Range(entries[nodeId].dependents)
                /\ depId \in DOMAIN marked
                /\ marked[depId].status = "pending"
                /\ dependentDepsComplete(marked, depId)
        IN  [dag EXCEPT !.nodes.entries =
                [id \in DOMAIN marked |->
                    IF promoted(id) THEN [marked[id] EXCEPT !.status = "ready"]
                    ELSE marked[id]]]

\* Variant: allComplete set by any finished node.
someNodeComplete(dag) ==
    \E id \in DOMAIN dag.nodes.entries :
        dag.nodes.entries[id].status \in {"completed", "failed"}

isDAGComplete(dag) ==
    \A id \in DOMAIN dag.nodes.entries :
        dag.nodes.entries[id].status \in {"completed", "failed"}

(***************************************************************************)
(* The events of the mesh, recorded in the order of their emitEvent calls  *)
(* when meshEvents is recording.                                           *)
(***************************************************************************)
MeshEvent(type, nodeId) == [type |-> type, nodeId |-> nodeId]

\* this.emitEvent(type, data) for each of the events, in order
emitEvents(m, events) ==
    IF m.pc = "recording" THEN [m EXCEPT !.events = @ \o events] ELSE m

\* A step of the mesh that emits the events and touches no satellite.
Emits(events) ==
    /\ meshEvents' = emitEvents(meshEvents, events)
    /\ UNCHANGED <<planning, satellite, york, serviceVars>>

(***************************************************************************)
(* AgentMesh.executePlan                                                   *)
(***************************************************************************)
Terminal == {"completed", "failed"}

\* The history of completed / failed assignments after a step to the entries `after`.
Reached(before, after) ==
    [id \in DOMAIN reached |->
        IF /\ id \in DOMAIN after
           /\ after[id].status \in Terminal
           /\ after[id].status # before[id].status
        THEN reached[id] \cup {after[id].status}
        ELSE reached[id]]

\* plan.tasks.find(t => t.id === node.taskId || t.description === nodeId):
\* the position of the first match, 0 when there is none
findTask(tasks, node, nodeId) ==
    LET matches == {i \in 1..Len(tasks) :
                        tasks[i].id = node.taskId \/ tasks[i].description = nodeId}
    IN  IF matches = {} THEN 0
        ELSE CHOOSE i \in matches : \A j \in matches : i <= j

\* getSatellite: the default branch throws
getSatelliteThrows(id) == id \notin KnownSatellites

\* One callback of readyNodes.map(async nodeId => ...), up to its first await.
startExecution(tasks, entries, nodeId) ==
    LET t == findTask(tasks, entries[nodeId], nodeId)
    IN  IF t = 0 THEN [nodeId |-> nodeId, state |-> "null", task |-> 0]
        ELSE IF getSatelliteThrows(tasks[t].satelliteId)
             THEN [nodeId |-> nodeId, state |-> "rejected", task |-> t]
             ELSE [nodeId |-> nodeId, state |-> "pending", task |-> t]

\* The task_started events of one batch: one for each callback that finds its
\* task, emitted before getSatellite is called.
taskStarted(p) ==
    LET got == getReadyTasks(p.dag)
        started == [q \in 1..Len(got.ready) |->
                      startExecution(p.tasks, got.dag.nodes.entries, got.ready[q])]
        found == SelectSeq(started, LAMBDA e : e.state # "null")
    IN  [i \in 1..Len(found) |-> MeshEvent("task_started", found[i].nodeId)]

\* One pass of the while loop up to `await Promise.all(executions)`.
LoopIteration ==
    /\ pc = "loop"
    /\ Emits(IF plan.dag.nodes.isMap /\ ~isDAGComplete(plan.dag)
             THEN taskStarted(plan) ELSE <<>>)
    /\ IF ~plan.dag.nodes.isMap
       THEN \* dag.nodes.forEach is not a function: isDAGComplete throws
            /\ pc' = "threw"
            /\ UNCHANGED <<plan, readyNodes, executions, warned, batchNo, batchOf>>
       ELSE IF isDAGComplete(plan.dag)
       THEN /\ pc' = "returned"
            /\ UNCHANGED <<plan, readyNodes, executions, warned, batchNo, batchOf>>
       ELSE LET got == getReadyTasks(plan.dag)
                started == [p \in 1..Len(got.ready) |->
                              startExecution(plan.tasks, got.dag.nodes.entries, got.ready[p])]
                running == {started[p].nodeId : p \in {q \in 1..Len(started) :
                                                          started[q].state # "null"}}
            IN  IF got.ready = <<>>
                THEN \* 'No ready nodes but DAG not complete - possible cycle': break
                     /\ pc' = "returned"
                     /\ warned' = TRUE
                     /\ readyNodes' = <<>>
                     /\ executions' = <<>>
                     /\ UNCHANGED <<plan, batchNo, batchOf>>
                ELSE /\ pc' = "await"
                     /\ UNCHANGED warned
                     /\ readyNodes' = got.ready
                     /\ executions' = started
                     /\ plan' = [plan EXCEPT !.dag.nodes.entries =
                                    [id \in DOMAIN got.dag.nodes.entries |->
                                        IF id \in running
                                        THEN [got.dag.nodes.entries[id] EXCEPT !.status = "running"]
                                        ELSE got.dag.nodes.entries[id]]]
                     /\ batchNo' = IF running = {} THEN batchNo ELSE batchNo + 1
                     /\ batchOf' = [id \in DOMAIN batchOf |->
                                        IF id \in running THEN batchNo + 1 ELSE batchOf[id]]
    /\ reached' = Reached(plan.dag.nodes.entries, plan'.dag.nodes.entries)
    /\ UNCHANGED <<builtPlan, results, meshVars>>

\* satellite.execute(task) returns: markTaskComplete, then the callback returns the result.
ExecutionReturns(p, success) ==
    /\ p \in 1..Len(executions)
    /\ executions[p].state = "pending"
    /\ Emits(<<MeshEvent("task_completed", executions[p].nodeId)>>)
    /\ LET task == plan.tasks[executions[p].task]
           result == [taskId |-> task.id, satelliteId |-> task.satelliteId,
                      success |-> success]
       IN  /\ plan' = [plan EXCEPT !.dag = markTaskComplete(plan.dag, executions[p].nodeId, result)]
           /\ executions' = [executions EXCEPT ![p].state = "fulfilled"]
    /\ reached' = Reached(plan.dag.nodes.entries, plan'.dag.nodes.entries)
    /\ UNCHANGED <<builtPlan, pc, readyNodes, results, warned, batchNo, batchOf, meshVars>>

\* satellite.execute(task) rejects: the callback's promise rejects, the node stays running.
ExecutionRejects(p) ==
    /\ Emits(<<>>)
    /\ p \in 1..Len(executions)
    /\ executions[p].state = "pending"
    /\ executions' = [executions EXCEPT ![p].state = "rejected"]
    /\ UNCHANGED <<builtPlan, plan, pc, readyNodes, results, warned, batchNo, batchOf, reached,
                   meshVars>>

\* The result a fulfilled callback returned: the node's result.
resultOf(execution) == plan.dag.nodes.entries[execution.nodeId].result

\* Promise.all resolves: results.push(...batchResults.filter(r => r !== null))
BatchResolves ==
    /\ Emits(<<>>)
    /\ pc = "await"
    /\ \A p \in 1..Len(executions) : executions[p].state \in {"null", "fulfilled"}
    /\ results' = results \o
            SeqMap([p \in 1..Len(executions) |-> resultOf(executions[p])],
                   SelectSeq([p \in 1..Len(executions) |-> p],
                             LAMBDA p : executions[p].state = "fulfilled"))
    /\ pc' = "loop"
    /\ UNCHANGED <<builtPlan, plan, readyNodes, executions, warned, batchNo, batchOf, reached,
                   meshVars>>

\* Promise.all rejects with the first rejection: executePlan throws, the other
\* executions of the batch stay in flight.
BatchRejects ==
    /\ Emits(<<>>)
    /\ pc = "await"
    /\ \E p \in 1..Len(executions) : executions[p].state = "rejected"
    /\ pc' = "threw"
    /\ UNCHANGED <<builtPlan, plan, readyNodes, executions, results, warned, batchNo, batchOf,
                   reached, meshVars>>

(***************************************************************************)
(* AgentMesh.processRequest                                                *)
(***************************************************************************)
\* The calls of processRequest, numbered in their order of arrival.
Callers == 1..MaxCalls

\* The plan processRequest works on: JSON.parse of the JSON.stringify(plan)
\* that Shaka.execute returns as its output. A Map serialises as {}: the
\* parsed dag.nodes is a plain object without entries and without forEach.
JSONRoundTrip(p) ==
    [tasks |-> p.tasks,
     dag |-> [nodes |-> [isMap |-> FALSE, order |-> <<>>, entries |-> <<>>],
              rootNodes |-> p.dag.rootNodes,
              leafNodes |-> p.dag.leafNodes]]

\* Variant: the guard never finds a request in progress.
neverProcessing == FALSE

\* if (this.isProcessing) throw new Error('Already processing a request')
alreadyProcessing == isProcessing

\* York.addConversationTurn, as far as the history goes
addConversationTurn(history, role, c) == Append(history, [role |-> role, request |-> c])

\* Variant: the cleanup clears the active plan and keeps the flag.
FinallyKeepsFlag ==
    /\ isProcessing' = isProcessing
    /\ activePlan' = NoPlan

\* finally { this.isProcessing = false; this.state.activePlan = undefined }
Finally ==
    /\ isProcessing' = FALSE
    /\ activePlan' = NoPlan

\* A call of processRequest, up to `await this.shaka.execute(planTask)`.
ProcessRequest(c) ==
    /\ Emits(<<>>)
    /\ call[c] = "idle"
    /\ \A d \in 1..(c - 1) : call[d] # "idle"
    /\ IF alreadyProcessing
       THEN /\ call' = [call EXCEPT ![c] = "busy"]
            /\ UNCHANGED <<isProcessing, activePlan, conversation>>
       ELSE /\ isProcessing' = TRUE
            /\ conversation' = addConversationTurn(conversation, "user", c)
            /\ call' = [call EXCEPT ![c] = "planning"]
            /\ UNCHANGED activePlan
    /\ UNCHANGED runVars

\* shaka.execute(planTask) settles. With a plan: JSON.parse, activePlan, and
\* executePlan(plan) is entered. Without (planResult.success is false, or the
\* call rejects): the error is thrown to the caller through catch and finally.
PlanReturns(c, planned) ==
    /\ Emits(<<MeshEvent(IF planned THEN "plan_created" ELSE "error", "")>>)
    /\ call[c] = "planning"
    /\ IF planned
       THEN \E n \in 0..MaxTasks, k \in 0..MaxEdges :
              \E odd \in 0..n, kind \in 1..2,
                 e \in [1..k -> (1..n) \X {NodeId(i) : i \in 0..(n - 1)}] :
                 /\ PlanningInputs(n, odd, kind, e)
                 /\ builtPlan' = createExecutionPlan(PlanningTasks(n, odd, kind, e),
                                                     PlanningTasks(n, odd, kind, e))
                 /\ plan' = JSONRoundTrip(builtPlan')
                 /\ activePlan' = plan'
                 /\ pc' = "loop"
                 /\ readyNodes' = <<>>
                 /\ executions' = <<>>
                 /\ results' = <<>>
                 /\ warned' = FALSE
                 /\ batchNo' = 0
                 /\ batchOf' = [id \in DOMAIN builtPlan'.dag.nodes.entries |-> 0]
                 /\ reached' = [id \in DOMAIN builtPlan'.dag.nodes.entries |-> {}]
                 /\ call' = [call EXCEPT ![c] = "executing"]
                 /\ UNCHANGED <<isProcessing, conversation>>
       ELSE /\ Finally
            /\ call' = [call EXCEPT ![c] = "planningFailed"]
            /\ UNCHANGED <<conversation, runVars>>

\* The assistant turn of processRequest: the synthesized response, with the
\* quality note appended when the critique is not approved.
assistantTurn(history, c, critiqueApproved) ==
    Append(history, [role |-> "assistant", request |-> c,
                     qualityNote |-> ~critiqueApproved])

\* The event processRequest ends with: all_complete before it returns, error
\* in its catch block.  The executions still awaiting their satellite are not
\* cancelled: they stay in flight.
settleEvents(m, resolves, pending) ==
    IF m.pc = "recording"
    THEN LET left == SelectSeq(pending, LAMBDA e : e.state = "pending")
         IN  [m EXCEPT
                !.events = Append(@, MeshEvent(IF resolves THEN "all_complete"
                                               ELSE "error", "")),
                !.inFlight = @ \o [i \in 1..Len(left) |-> left[i].nodeId]]
    ELSE m

\* executePlan has returned or thrown: critique (whose approval the analyses of
\* Lilith decide), synthesis and the assistant turn, or the catch block; then
\* finally.
Settle(c, critiqueApproved, synthesized) ==
    /\ call[c] = "executing"
    /\ pc \in {"returned", "threw"}
    /\ meshEvents' = settleEvents(meshEvents, pc = "returned" /\ synthesized, executions)
    /\ UNCHANGED <<planning, satellite, york, serviceVars>>
    /\ IF pc = "returned" /\ synthesized
       THEN /\ conversation' = assistantTurn(conversation, c, critiqueApproved)
            /\ call' = [call EXCEPT ![c] = "resolved"]
       ELSE /\ call' = [call EXCEPT ![c] = "failed"]
            /\ UNCHANGED conversation
    /\ Finally
    /\ pc' = "idle"
    /\ builtPlan' = NoPlan
    /\ plan' = NoPlan
    /\ readyNodes' = <<>>
    /\ executions' = <<>>
    /\ results' = <<>>
    /\ warned' = FALSE
    /\ batchNo' = 0
    /\ batchOf' = <<>>
    /\ reached' = <<>>

(***************************************************************************)
(* Spec: the mesh serving processRequest calls.                            *)
(***************************************************************************)
Init ==
    /\ builtPlan = NoPlan
    /\ plan = NoPlan
    /\ pc = "idle"
    /\ readyNodes = <<>>
    /\ executions = <<>>
    /\ results = <<>>
    /\ warned = FALSE
    /\ batchNo = 0
    /\ batchOf = <<>>
    /\ reached = <<>>
    /\ isProcessing = FALSE
    /\ activePlan = NoPlan
    /\ conversation = <<>>
    /\ call = [c \in Callers |-> "idle"]
    /\ planning = PlanningIdle
    /\ satellite = SatelliteIdle
    /\ meshEvents = MeshEventsIdle
    /\ york = YorkIdle
    /\ ServicesIdle

Next ==
    \/ \E c \in Callers : ProcessRequest(c)
    \/ \E c \in Callers, planned \in BOOLEAN : PlanReturns(c, planned)
    \/ LoopIteration
    \/ \E c \in Callers, critiqueApproved \in BOOLEAN, synthesized \in BOOLEAN :
            Settle(c, critiqueApproved, synthesized)

Spec == Init /\ [][Next]_vars

(***************************************************************************)
(* SpecRun: executePlan(plan) for a plan of createExecutionPlan.           *)
(***************************************************************************)
InitRun ==
    /\ \E n \in 0..MaxTasks, k \in 0..MaxEdges :
         \E odd \in 0..n, kind \in 1..2,
            e \in [1..k -> (1..n) \X {NodeId(i) : i \in 0..(n - 1)}] :
            /\ PlanningInputs(n, odd, kind, e)
            /\ builtPlan = createExecutionPlan(PlanningTasks(n, odd, kind, e),
                                                     PlanningTasks(n, odd, kind, e))
    /\ plan = builtPlan
    /\ pc = "loop"
    /\ readyNodes = <<>>
    /\ executions = <<>>
    /\ results = <<>>
    /\ warned = FALSE
    /\ batchNo = 0
    /\ batchOf = [id \in DOMAIN plan.dag.nodes.entries |-> 0]
    /\ reached = [id \in DOMAIN plan.dag.nodes.entries |-> {}]
    /\ isProcessing = FALSE
    /\ activePlan = NoPlan
    /\ conversation = <<>>
    /\ call = [c \in Callers |-> "idle"]
    /\ planning = PlanningIdle
    /\ satellite = SatelliteIdle
    /\ meshEvents = MeshEventsIdle
    /\ york = YorkIdle
    /\ ServicesIdle

NextRun ==
    \/ LoopIteration
    \/ \E p \in 1..MaxTasks, success \in BOOLEAN : ExecutionReturns(p, success)
    \/ \E p \in 1..MaxTasks : ExecutionRejects(p)
    \/ BatchResolves
    \/ BatchRejects

SpecRun == InitRun /\ [][NextRun]_vars

(***************************************************************************)
(* Properties of the scheduler run.                                        *)
(***************************************************************************)
Nodes == plan.dag.nodes.entries
NodeIds == DOMAIN Nodes

\* Every entry of the node's dependencies list has status completed.
DependenciesCompleted(id) ==
    \A k \in 1..Len(Nodes[id].dependencies) :
        Nodes[Nodes[id].dependencies[k]].status = "completed"

\* The node has been dispatched: set running and handed to a satellite.
Dispatched(id) == batchOf[id] > 0

\* C1: a node is dispatched (set running, its task handed to a satellite) only
\* when every node of its dependencies list has status completed; as completed
\* is kept, every dispatched node has all its dependencies completed.
C1_DispatchedAfterDependencies ==
    \A id \in NodeIds :
        (Dispatched(id) \/ Nodes[id].status = "running") => DependenciesCompleted(id)

\* C1 witness: a node with two dependencies has been dispatched.
C1_Witness ==
    \E id \in NodeIds : Dispatched(id) /\ Len(Nodes[id].dependencies) = 2

\* C5: a node has status ready only when every node of its dependencies list
\* has status completed: at construction, after getReadyTasks and after
\* markTaskComplete.
C5_ReadyOnlyAfterDependencies ==
    \A id \in NodeIds : Nodes[id].status = "ready" => DependenciesCompleted(id)

\* C5 witness: a node with two dependencies has been promoted to ready.
C5_Witness ==
    \E id \in NodeIds : Nodes[id].status = "ready" /\ Len(Nodes[id].dependencies) = 2

\* C6: a node is given at most one of completed and failed and keeps it once
\* given; the loop ends on isDAGComplete (it returns without the deadlock
\* warning) exactly when every node has been given one of the two.
C6_TerminalOnceAndForAll ==
    /\ \A id \in NodeIds :
        /\ Cardinality(reached[id]) <= 1
        /\ reached[id] # {} => Nodes[id].status \in reached[id]
        /\ Nodes[id].status \in Terminal => reached[id] = {Nodes[id].status}
    /\ pc = "returned" =>
        (~warned <=> \A id \in NodeIds : Cardinality(reached[id]) = 1)

\* C6 witness: the loop has ended on isDAGComplete with a completed node and a
\* failed one.
C6_Witness ==
    /\ pc = "returned" /\ ~warned
    /\ \E id \in NodeIds : reached[id] = {"completed"}
    /\ \E id \in NodeIds : reached[id] = {"failed"}

RECURSIVE DependsOn(_, _, _)
\* id depends on dep through at most `depth` dependency entries
DependsOn(id, dep, depth) ==
    /\ depth > 0
    /\ \E k \in 1..Len(Nodes[id].dependencies) :
        \/ Nodes[id].dependencies[k] = dep
        \/ DependsOn(Nodes[id].dependencies[k], dep, depth - 1)

\* C7: every node that depends, directly or transitively, on a failed node is
\* pending and has not been dispatched.
C7_FailedBlocksDependents ==
    \A failed \in NodeIds : Nodes[failed].status = "failed" =>
        \A id \in NodeIds : DependsOn(id, failed, Cardinality(NodeIds)) =>
            Nodes[id].status = "pending" /\ ~Dispatched(id)

\* C7 witness: a node has failed, a second depends on it and a third on the
\* second, and everything else of the run is over.
C7_Witness ==
    \E failed, direct, indirect \in NodeIds :
        /\ Nodes[failed].status = "failed"
        /\ direct # indirect
        /\ failed \in Range(Nodes[direct].dependencies)
        /\ direct \in Range(Nodes[indirect].dependencies)
        /\ pc = "returned"

(***************************************************************************)
(* Properties of processRequest                                            *)
(***************************************************************************)
\* The calls that hold the processing flag: between the flag being set and
\* the promise settling.
ActiveCalls == {c \in Callers : call[c] \in {"planning", "executing"}}

\* The outcomes in which the promise of processRequest is rejected.
Rejected == {"busy", "planningFailed", "failed"}

\* C3: at most one call is active, and a call made while another is active is
\* rejected as already processing: planning is not started, no conversation
\* turn is appended, and the flag, the active plan and the run are untouched.
C3_SingleActiveRun ==
    [][/\ Cardinality(ActiveCalls') <= 1
       /\ ActiveCalls' # {} => isProcessing'
       /\ \A c \in Callers :
            (call[c] = "idle" /\ call'[c] # "idle" /\ ActiveCalls # {}) =>
                /\ call'[c] = "busy"
                /\ ActiveCalls' = ActiveCalls
                /\ UNCHANGED <<isProcessing, activePlan, conversation, runVars>>]_vars

\* C3 witness: a call was rejected as busy while another is executing its plan.
C3_Witness ==
    \E c, d \in Callers :
        /\ call[c] = "busy"
        /\ call[d] = "executing"
        /\ isProcessing
        /\ activePlan # NoPlan

\* C4: a call that held the flag leaves it released and the active plan
\* cleared when it settles, a failed planning settles as a rejection, and a
\* call made when no call is active is accepted.
C4_FlagReleasedOnSettle ==
    [][\A c \in Callers :
         /\ (c \in ActiveCalls /\ c \notin ActiveCalls') =>
                /\ ~isProcessing'
                /\ activePlan' = NoPlan
                /\ call'[c] \in {"resolved", "planningFailed", "failed"}
         /\ (call[c] = "planning" /\ call'[c] \notin {"planning", "executing"}) =>
                call'[c] \in Rejected
         /\ (call[c] = "idle" /\ call'[c] # "idle" /\ ActiveCalls = {}) =>
                call'[c] = "planning" /\ isProcessing']_vars

\* C4 witness: after a call whose planning failed and a call whose execution
\* threw, a further call has been accepted.
C4_Witness ==
    \E c, d, e \in Callers :
        /\ call[c] = "planningFailed"
        /\ call[d] = "failed"
        /\ call[e] = "planning"
        /\ isProcessing

(***************************************************************************)
(* Properties of the execution loop                                        *)
(***************************************************************************)
\* C2: every pass of the loop that awaits a batch moves at least one node of
\* the batch to completed or failed, so no pass repeats the one before it.
C2_EveryIterationProgresses ==
    [][(pc = "await" /\ pc' = "loop") =>
          \E p \in 1..Len(readyNodes) : Nodes[readyNodes[p]].status \in Terminal]_vars

\* C8: a node promoted to ready by the completion of its dependencies is
\* dispatched by the batch that getReadyTasks hands it to.
C8_PromotedIsDispatched ==
    pc = "await" =>
        \A p \in 1..Len(readyNodes) :
            (/\ Nodes[readyNodes[p]].dependencies # <<>>
             /\ DependenciesCompleted(readyNodes[p])) => Dispatched(readyNodes[p])

\* The node a result belongs to: the node whose task produced it.
NodeOfResult(result) ==
    CHOOSE id \in NodeIds : Nodes[id].result = result

\* C9: the nodes of one getReadyTasks call are dispatched together as the
\* current batch, a node is running only as part of the current batch, and
\* the results list is ordered by batch.
C9_BatchesDispatchedTogether ==
    /\ pc = "await" =>
          \A p \in 1..Len(readyNodes) : batchOf[readyNodes[p]] = batchNo /\ batchNo > 0
    /\ \A id \in NodeIds : Nodes[id].status = "running" => batchOf[id] = batchNo
    /\ \A i, j \in 1..Len(results) :
          i < j => batchOf[NodeOfResult(results[i])] <= batchOf[NodeOfResult(results[j])]

\* getReadyTasks returns an empty list while isDAGComplete is false.
Deadlocked(dag) ==
    /\ getReadyTasks(dag).ready = <<>>
    /\ ~isDAGComplete(dag)

\* C10: a plan whose DAG has no ready node and is not complete does not make
\* executePlan throw.
C10_DeadlockDoesNotThrow ==
    (builtPlan # NoPlan /\ Deadlocked(builtPlan.dag)) => pc # "threw"

(***************************************************************************)
(* SpecPlan: Shaka.createExecutionPlan(userInput), step by step.           *)
(***************************************************************************)
\* No processRequest run and no executePlan under way.
MeshIdle ==
    /\ builtPlan = NoPlan
    /\ plan = NoPlan
    /\ pc = "idle"
    /\ readyNodes = <<>>
    /\ executions = <<>>
    /\ results = <<>>
    /\ warned = FALSE
    /\ batchNo = 0
    /\ batchOf = <<>>
    /\ reached = <<>>
    /\ isProcessing = FALSE
    /\ activePlan = NoPlan
    /\ conversation = <<>>
    /\ call = [c \in Callers |-> "idle"]

\* The user's request, as text.
UserInput == "build me an app"

\* The generator's answers to the reflection prompt, by kind.
ReflectionKinds ==
    {"noJson", "invalidJson", "noTasks", "empty", "same", "dropLast", "reverse", "lilith"}

\* The answer of a kind for the plan `tasks`: no usable JSON, an empty task
\* list, the plan itself, the plan without its last task, the plan in reverse
\* order, or the plan with every task given to lilith.
ReflectionResponse(kind, tasks) ==
    CASE kind = "noJson" -> NoJson
      [] kind = "invalidJson" -> InvalidJson
      [] kind = "noTasks" -> ObjectWithoutTasks
      [] kind = "empty" -> ObjectWithTasks(<<>>)
      [] kind = "same" -> ObjectWithTasks(tasks)
      [] kind = "dropLast" -> ObjectWithTasks(SubSeq(tasks, 1, Len(tasks) - 1))
      [] kind = "reverse" ->
            ObjectWithTasks([i \in 1..Len(tasks) |-> tasks[Len(tasks) + 1 - i]])
      [] kind = "lilith" ->
            ObjectWithTasks([i \in 1..Len(tasks) |-> [tasks[i] EXCEPT !.satellite = "lilith"]])

\* const planningResult = await this.analyzAndPlan(userInput)
AnalyzAndPlan ==
    /\ planning.pc = "analyzAndPlan"
    /\ planning' = [planning EXCEPT
                        !.pc = "buildDAG",
                        !.result = analyzAndPlan(planning.response, planning.input)]
    /\ UNCHANGED <<runVars, meshVars, satellite, meshEvents, york, serviceVars>>

\* const dag = this.buildDAG(planningResult.tasks): tasks.forEach throws a
\* TypeError when the parsed object has no tasks.
BuildDAG ==
    /\ planning.pc = "buildDAG"
    /\ IF planning.result.hasTasks
       THEN planning' = [planning EXCEPT
                            !.pc = "reflectOnPlan",
                            !.dag = buildDAG(planning.result.tasks)]
       ELSE planning' = [planning EXCEPT !.pc = "threw"]
    /\ UNCHANGED <<runVars, meshVars, satellite, meshEvents, york, serviceVars>>

\* reflectOnPlan (the generator is asked only about plans of more than two
\* tasks), the SatelliteTasks, the plan, and storeResult, which may reject.
ReflectAndReturn(kind, stored) ==
    /\ planning.pc = "reflectOnPlan"
    /\ Len(planning.result.tasks) <= 2 => kind = "noJson"
    /\ LET reflection == ReflectionResponse(kind, planning.result.tasks)
       IN  planning' = [planning EXCEPT
                            !.pc = IF stored THEN "returned" ELSE "storeRejected",
                            !.reflection = reflection,
                            !.plan = createExecutionPlan(planning.result.tasks,
                                        reflectOnPlan(planning.result.tasks, reflection))]
    /\ UNCHANGED <<runVars, meshVars, satellite, meshEvents, york, serviceVars>>

\* createExecutionPlan(userInput) called, the generator's answer to the
\* planning prompt in hand.
PlanningStarts(response) ==
    [pc |-> "analyzAndPlan",
     input |-> UserInput,
     response |-> response,
     result |-> [hasTasks |-> FALSE, tasks |-> <<>>],
     dag |-> NoPlan,
     reflection |-> NoJson,
     plan |-> NoPlan]

InitPlan ==
    /\ MeshIdle
    /\ satellite = SatelliteIdle
    /\ meshEvents = MeshEventsIdle
    /\ york = YorkIdle
    /\ ServicesIdle
    /\ \/ \E response \in {NoJson, InvalidJson, ObjectWithoutTasks} :
            planning = PlanningStarts(response)
       \/ \E n \in 0..MaxTasks, k \in 0..MaxEdges :
            \E odd \in 0..n, kind \in 1..2,
               e \in [1..k -> (1..n) \X {NodeId(i) : i \in 0..(n - 1)}] :
               /\ PlanningInputs(n, odd, kind, e)
               /\ planning = PlanningStarts(ObjectWithTasks(PlanningTasks(n, odd, kind, e)))

NextPlan ==
    \/ AnalyzAndPlan
    \/ BuildDAG
    \/ \E kind \in ReflectionKinds, stored \in BOOLEAN : ReflectAndReturn(kind, stored)

SpecPlan == InitPlan /\ [][NextPlan]_vars

(***************************************************************************)
(* Properties of planning                                                  *)
(***************************************************************************)
\* C11: the DAG of a returned plan has exactly one node per task of the plan,
\* node_i standing for tasks[i] with its satellite and with the dependencies
\* its dependency descriptions resolve to.
C11_OneNodePerTask ==
    planning.pc = "returned" =>
        LET tasks == planning.plan.tasks
            entries == planning.plan.dag.nodes.entries
        IN  /\ Cardinality(DOMAIN entries) = Len(tasks)
            /\ \A i \in 1..Len(tasks) :
                /\ NodeId(i - 1) \in DOMAIN entries
                /\ entries[NodeId(i - 1)].satelliteId = tasks[i].satelliteId
                /\ entries[NodeId(i - 1)].dependencies =
                        ResolveDeps(DescToId(tasks), tasks[i].dependencies)

\* C13: whatever the generator returns for the planning prompt, no planning
\* step throws, and a response that does not parse into a task list yields the
\* fallback plan: the whole input as one task for edison without dependencies.
C13_PlanningAlwaysYieldsPlan ==
    /\ planning.pc # "threw"
    /\ (planning.pc = "returned"
            /\ ~(planning.response.json = "object" /\ planning.response.hasTasks)) =>
        /\ planning.plan.tasks =
              <<[id |-> TaskUuid(1), satelliteId |-> "edison",
                 description |-> planning.input, dependencies |-> <<>>]>>
        /\ DOMAIN planning.plan.dag.nodes.entries = {NodeId(0)}
        /\ planning.plan.dag.nodes.entries[NodeId(0)].status = "ready"

(***************************************************************************)
(* Properties of the DAG's edges                                           *)
(***************************************************************************)
\* C12: in the DAG of a run, b occurs in a.dependencies as often as a occurs in
\* b.dependents, and both lists of every node are as buildDAG made them,
\* whatever getReadyTasks, markTaskComplete and executePlan have done since.
C12_EdgesSymmetricAndFixed ==
    /\ \A a, b \in NodeIds :
          Occurrences(Nodes[a].dependencies, b) = Occurrences(Nodes[b].dependents, a)
    /\ \A id \in NodeIds :
          /\ Nodes[id].dependencies = builtPlan.dag.nodes.entries[id].dependencies
          /\ Nodes[id].dependents = builtPlan.dag.nodes.entries[id].dependents

\* C12 witness: a node that names another twice as its dependency has been
\* promoted, run and completed.
C12_Witness ==
    \E a, b \in NodeIds :
        /\ a # b
        /\ Occurrences(Nodes[a].dependencies, b) = 2
        /\ Nodes[a].status = "completed"

(***************************************************************************)
(* BaseSatellite: state, subscribers, and execute(task) of the concrete    *)
(* satellites.                                                             *)
(***************************************************************************)
MaxSubscribers == 2     \* callbacks subscribed to one emitter at a time

RECURSIVE forEach(_)
\* callbacks.forEach(cb => cb(event)): the callbacks called, in order, up to
\* and including the first that throws; the exception leaves forEach.
forEach(callbacks) ==
    IF callbacks = <<>> THEN [received |-> <<>>, threw |-> FALSE]
    ELSE IF Head(callbacks).throws
         THEN [received |-> <<Head(callbacks).id>>, threw |-> TRUE]
         ELSE LET rest == forEach(Tail(callbacks))
              IN  [received |-> <<Head(callbacks).id>> \o rest.received,
                   threw |-> rest.threw]

\* BaseSatellite.emitEvent
emitEvent(callbacks) == forEach(callbacks)

\* The record of an emitted event: its type, the callbacks subscribed when it
\* was emitted and those that were called with it.
Emitted(type, callbacks, delivery) ==
    [type |-> type,
     subscribed |-> [i \in 1..Len(callbacks) |-> callbacks[i].id],
     received |-> delivery.received]

NoEvent == [type |-> "none", subscribed |-> <<>>, received |-> <<>>]

\* onEvent(callback): pushed at the end; the id tells the callbacks apart.
onEvent(callbacks, throws) ==
    Append(callbacks,
           [id |-> CHOOSE k \in 1..(Len(callbacks) + 1) :
                        \A i \in 1..Len(callbacks) : callbacks[i].id # k,
            throws |-> throws])

\* The function onEvent returned: splice(index, 1)
unsubscribe(callbacks, index) ==
    [i \in 1..(Len(callbacks) - 1) |-> IF i < index THEN callbacks[i] ELSE callbacks[i + 1]]

\* updateState(updates): the state is replaced, then the 'executing' event is
\* emitted; emitThrew tells whether emitEvent threw.
updateState(s, status) ==
    LET delivery == emitEvent(s.callbacks)
    IN  [s EXCEPT !.status = status,
                  !.lastEmit = Emitted("executing", s.callbacks, delivery),
                  !.emitThrew = delivery.threw]

NoSatelliteResult == [none |-> TRUE]
\* createSuccessResult / createFailureResult
createSuccessResult == [success |-> TRUE, output |-> "output", error |-> "undefined"]
createFailureResult == [success |-> FALSE, output |-> "", error |-> "error"]

\* The status execute sets before its try block.
InitialStatus(id) == IF id = "atlas" THEN "executing" ELSE "thinking"

\* catch (error) { updateState({status: 'error'}); return createFailureResult }
catch(s) ==
    LET s1 == updateState([s EXCEPT !.caught = TRUE], "error")
    IN  IF s1.emitThrew
        THEN [s1 EXCEPT !.pc = "rejected"]
        ELSE [s1 EXCEPT !.pc = "returned", !.result = createFailureResult]

\* updateState({status: 'completed'}); return the result
complete(s, result) ==
    LET s1 == updateState(s, "completed")
    IN  IF s1.emitThrew THEN catch(s1)
        ELSE [s1 EXCEPT !.pc = "returned", !.result = result]

\* A callback subscribes to the satellite's events.
Subscribe(throws) ==
    /\ satellite.pc # "unused"
    /\ Len(satellite.callbacks) < MaxSubscribers
    /\ satellite' = [satellite EXCEPT !.callbacks = onEvent(satellite.callbacks, throws)]
    /\ UNCHANGED <<runVars, meshVars, planning, meshEvents, york, serviceVars>>

\* A subscriber calls the function onEvent returned to it.
Unsubscribe(index) ==
    /\ satellite.pc # "unused"
    /\ index \in 1..Len(satellite.callbacks)
    /\ satellite' = [satellite EXCEPT !.callbacks = unsubscribe(satellite.callbacks, index)]
    /\ UNCHANGED <<runVars, meshVars, planning, meshEvents, york, serviceVars>>

\* execute(task) up to its first await: updateState before the try block.
Execute ==
    /\ satellite.pc \in {"idle", "returned", "rejected"}
    /\ LET s1 == updateState([satellite EXCEPT !.caught = FALSE,
                                               !.result = NoSatelliteResult],
                             InitialStatus(satellite.id))
       IN  satellite' = [s1 EXCEPT !.pc = IF s1.emitThrew THEN "rejected" ELSE "working"]
    /\ UNCHANGED <<runVars, meshVars, planning, meshEvents, york, serviceVars>>

\* The awaited work of execute settles and execute runs to its end.
\*   "done": the work returned;  "throws": an error was thrown in the try block;
\*   "noRequest": Atlas.parseToolRequest returned null;
\*   "toolFailed": Atlas.executeToolWithRetry returned success = false.
WorkSettles(outcome) ==
    /\ satellite.pc = "working"
    /\ outcome \in {"noRequest", "toolFailed"} => satellite.id = "atlas"
    /\ satellite' =
         CASE outcome = "done" -> complete(satellite, createSuccessResult)
           [] outcome = "toolFailed" -> complete(satellite, createFailureResult)
           [] outcome = "throws" -> catch(satellite)
           [] outcome = "noRequest" ->
                [satellite EXCEPT !.pc = "returned", !.result = createFailureResult]
    /\ UNCHANGED <<runVars, meshVars, planning, meshEvents, york, serviceVars>>

(***************************************************************************)
(* AgentMesh.onEvent / emitEvent                                           *)
(***************************************************************************)
MeshEventTypes == {"plan_created", "task_started", "task_completed", "all_complete", "error"}

\* AgentMesh.emitEvent
meshEmitEvent(callbacks) == forEach(callbacks)

MeshSubscribe(throws) ==
    /\ meshEvents.pc # "unused"
    /\ Len(meshEvents.callbacks) < MaxSubscribers
    /\ meshEvents' = [meshEvents EXCEPT !.callbacks = onEvent(meshEvents.callbacks, throws)]
    /\ UNCHANGED <<runVars, meshVars, planning, satellite, york, serviceVars>>

MeshUnsubscribe(index) ==
    /\ meshEvents.pc # "unused"
    /\ index \in 1..Len(meshEvents.callbacks)
    /\ meshEvents' = [meshEvents EXCEPT !.callbacks = unsubscribe(meshEvents.callbacks, index)]
    /\ UNCHANGED <<runVars, meshVars, planning, satellite, york, serviceVars>>

\* this.emitEvent(type, data)
MeshEmitEvent(type) ==
    /\ meshEvents.pc # "unused"
    /\ LET delivery == meshEmitEvent(meshEvents.callbacks)
       IN  meshEvents' = [meshEvents EXCEPT
                            !.lastEmit = Emitted(type, meshEvents.callbacks, delivery),
                            !.emitThrew = delivery.threw]
    /\ UNCHANGED <<runVars, meshVars, planning, satellite, york, serviceVars>>

(***************************************************************************)
(* SpecSat: one satellite instance serving execute calls, with callbacks   *)
(* subscribing to and unsubscribing from its events.                       *)
(***************************************************************************)
InitSat ==
    /\ MeshIdle
    /\ planning = PlanningIdle
    /\ meshEvents = MeshEventsIdle
    /\ york = YorkIdle
    /\ ServicesIdle
    /\ \E id \in KnownSatellites :
         satellite = [pc |-> "idle", id |-> id, status |-> "idle", callbacks |-> <<>>,
                      lastEmit |-> NoEvent, emitThrew |-> FALSE, caught |-> FALSE,
                      result |-> NoSatelliteResult]

NextSat ==
    \/ \E throws \in BOOLEAN : Subscribe(throws)
    \/ \E index \in 1..MaxSubscribers : Unsubscribe(index)
    \/ Execute
    \/ \E outcome \in {"done", "throws", "noRequest", "toolFailed"} : WorkSettles(outcome)

SpecSat == InitSat /\ [][NextSat]_vars

(***************************************************************************)
(* SpecEvents: the mesh's event emitter, with callbacks subscribing and    *)
(* unsubscribing.                                                          *)
(***************************************************************************)
InitEvents ==
    /\ MeshIdle
    /\ planning = PlanningIdle
    /\ satellite = SatelliteIdle
    /\ york = YorkIdle
    /\ ServicesIdle
    /\ meshEvents = [pc |-> "ready", callbacks |-> <<>>, lastEmit |-> NoEvent,
                     emitThrew |-> FALSE]

NextEvents ==
    \/ \E throws \in BOOLEAN : MeshSubscribe(throws)
    \/ \E index \in 1..MaxSubscribers : MeshUnsubscribe(index)
    \/ \E type \in MeshEventTypes : MeshEmitEvent(type)

SpecEvents == InitEvents /\ [][NextEvents]_vars

(***************************************************************************)
(* Properties of the satellites                                            *)
(***************************************************************************)
\* C14: whenever execute has returned, the satellite's status is completed or
\* error.
C14_ReturnedMeansCompletedOrError ==
    satellite.pc = "returned" => satellite.status \in {"completed", "error"}

\* C15: execute never rejects, and an execute in which an error was thrown
\* returns the failure result: success false, empty output, error set.
C15_ExecuteNeverRejects ==
    /\ satellite.pc # "rejected"
    /\ (satellite.pc = "returned" /\ satellite.caught) =>
            satellite.result = [success |-> FALSE, output |-> "", error |-> "error"]

\* Every callback subscribed when the event was emitted was called with it.
DeliveredToAll(emitter) ==
    emitter.pc # "unused" => emitter.lastEmit.received = emitter.lastEmit.subscribed

\* C16: an event emitted by a satellite or by the mesh reaches every callback
\* subscribed at the time, also when one of the callbacks throws.
C16_EveryEventReachesAllSubscribers ==
    /\ DeliveredToAll(satellite)
    /\ DeliveredToAll(meshEvents)

(***************************************************************************)
(* York: conversation history, token counter and context eviction.         *)
(***************************************************************************)
MaxTurns == 5           \* conversation turns appended in one behaviour
MaxEvictions == 3       \* performContextEviction calls suspended at one time

MAX_CONTEXT_TOKENS == 4096
EVICTION_THRESHOLD == 80        \* 0.8, in hundredths
TARGET_AFTER_EVICTION == 50     \* 0.5, in hundredths

\* turn.tokenCount of the turn-th turn appended: sizes that put the counter on
\* both sides of each threshold of evaluateEviction (3276 + 1, 3686 + 1,
\* 3891 + 1), the 4000 tokens of the documented example, and sizes that let
\* large turns follow small ones while evictions are suspended.
TokenCounts(turn) ==
    CASE turn = 1 -> {1, 1638, 3686, 3891, 4000}
      [] turn = 2 -> {1, 1229, 1638}
      [] turn = 3 -> {1, 2048}
      [] turn = 4 -> {2000, 3000}
      [] OTHER -> {1}

RECURSIVE SumTokens(_)
\* turns.reduce((sum, m) => sum + m.tokenCount, 0)
SumTokens(turns) ==
    IF turns = <<>> THEN 0 ELSE Head(turns).tokenCount + SumTokens(Tail(turns))

RECURSIVE CountMessagesBelow(_, _, _)
\* Variant: the oldest turns counted while their sum stays below tokensToFree.
CountMessagesBelow(history, tokenCount, tokensToFree) ==
    IF history = <<>> THEN 0
    ELSE IF tokenCount + Head(history).tokenCount >= tokensToFree THEN 0
         ELSE 1 + CountMessagesBelow(Tail(history), tokenCount + Head(history).tokenCount,
                                     tokensToFree)

RECURSIVE CountMessages(_, _, _)
\* for (const turn of history) { tokenCount += ...; messageCount++; if (tokenCount >= tokensToFree) break }
CountMessages(history, tokenCount, tokensToFree) ==
    IF history = <<>> THEN 0
    ELSE IF tokenCount + Head(history).tokenCount >= tokensToFree THEN 1
         ELSE 1 + CountMessages(Tail(history), tokenCount + Head(history).tokenCount,
                                tokensToFree)

\* usage >= ratio, for usage = contextTokens / maxContextTokens and a ratio in hundredths
UsageAtLeast(contextTokens, hundredths) ==
    contextTokens * 100 >= hundredths * MAX_CONTEXT_TOKENS

\* Variant: the tokens to free down to the eviction threshold.
tokensToFreeToThreshold(contextTokens) ==
    (contextTokens * 100 - MAX_CONTEXT_TOKENS * EVICTION_THRESHOLD) \div 100

\* Math.floor(contextTokens - maxContextTokens * TARGET_AFTER_EVICTION)
tokensToFree(contextTokens) ==
    (contextTokens * 100 - MAX_CONTEXT_TOKENS * TARGET_AFTER_EVICTION) \div 100

evaluateEviction(contextTokens, history) ==
    IF ~UsageAtLeast(contextTokens, EVICTION_THRESHOLD)
    THEN [shouldEvict |-> FALSE, tokensToFree |-> 0, messagesToSummarize |-> 0,
          priority |-> "low"]
    ELSE [shouldEvict |-> TRUE,
          tokensToFree |-> tokensToFree(contextTokens),
          messagesToSummarize |->
                CountMessages(history, 0, tokensToFree(contextTokens)),
          priority |-> IF UsageAtLeast(contextTokens, 95) THEN "critical"
                       ELSE IF UsageAtLeast(contextTokens, 90) THEN "high"
                       ELSE "medium"]

\* Variant: the call returns before it suspends; nothing is left to evict.
performContextEvictionSkipped(y, automatic) ==
    [y EXCEPT !.returned = "No eviction needed"]

\* performContextEviction up to `await this.generateSummary(messagesToEvict)`:
\* the call returns at once, or is suspended holding its decision and the
\* messages to evict.
performContextEviction(y, automatic) ==
    LET decision == evaluateEviction(y.contextTokens, y.conversationHistory)
        messagesToEvict == SubSeq(y.conversationHistory, 1, decision.messagesToSummarize)
    IN  IF ~decision.shouldEvict THEN [y EXCEPT !.returned = "No eviction needed"]
        ELSE IF messagesToEvict = <<>> THEN [y EXCEPT !.returned = "No messages to evict."]
        ELSE [y EXCEPT !.evictions =
                Append(@, [decision |-> decision,
                           messagesToEvict |-> messagesToEvict,
                           automatic |-> automatic,
                           appended |-> FALSE])]

\* performContextEviction after `await this.punkRecords.storeContextSlice(slice)`:
\* the slice is pushed, the history sliced, the counter decreased.
completeEviction(y, e) ==
    [y EXCEPT
        !.contextSlices = Append(@, [messages |-> e.messagesToEvict,
                                     originalTokenCount |-> SumTokens(e.messagesToEvict)]),
        !.conversationHistory = SubSeq(@, e.decision.messagesToSummarize + 1, Len(@)),
        !.contextTokens = @ - SumTokens(e.messagesToEvict)]

\* Variant: the store rejects after the slice was pushed to the local list.
rejectEvictionAfterPush(y, e) ==
    [y EXCEPT !.contextSlices =
        Append(@, [messages |-> e.messagesToEvict,
                   originalTokenCount |-> SumTokens(e.messagesToEvict)])]

\* performContextEviction when generateSummary, generateEmbedding or
\* storeContextSlice rejects: the statements after the await do not run.
rejectEviction(y, e) == y

\* Remove the i-th element of a sequence.
RemoveAt(s, i) == SubSeq(s, 1, i - 1) \o SubSeq(s, i + 1, Len(s))

\* The state of a York after construction: empty history, no slices, counter 0.
YorkReady ==
    [pc |-> "ready", conversationHistory |-> <<>>, contextTokens |-> 0,
     contextSlices |-> <<>>, evictions |-> <<>>, turns |-> 0,
     returned |-> "none", clean |-> FALSE]

AllTokenCounts == UNION {TokenCounts(turn) : turn \in 1..MaxTurns}

\* addConversationTurn(turn): push, update the counter, evaluate, and start the
\* automatic eviction (whose promise is dropped) when the decision says so.
AddConversationTurn(tokenCount) ==
    /\ york.pc = "ready"
    /\ york.turns < MaxTurns
    /\ tokenCount \in TokenCounts(york.turns + 1)
    /\ LET pushed == [york EXCEPT
                !.conversationHistory =
                    Append(@, [id |-> york.turns + 1, tokenCount |-> tokenCount]),
                !.contextTokens = @ + tokenCount,
                !.turns = @ + 1,
                !.clean = FALSE,
                !.evictions = [i \in DOMAIN @ |-> [@[i] EXCEPT !.appended = TRUE]]]
           decision == evaluateEviction(pushed.contextTokens, pushed.conversationHistory)
           after == IF decision.shouldEvict
                    THEN [performContextEviction(pushed, TRUE)
                            EXCEPT !.returned = pushed.returned]
                    ELSE pushed
       IN  /\ Len(after.evictions) <= MaxEvictions
           /\ york' = after
    /\ UNCHANGED <<runVars, meshVars, planning, satellite, meshEvents, serviceVars>>

\* A caller's performContextEviction() (triggerBrainBrainCut), up to its return
\* or its first await.
PerformContextEviction ==
    /\ york.pc = "ready"
    /\ LET after == performContextEviction(york, FALSE)
       IN  /\ Len(after.evictions) <= MaxEvictions
           /\ york' = after
    /\ UNCHANGED <<runVars, meshVars, planning, satellite, meshEvents, serviceVars>>

\* The summary, the embedding and the store of the i-th suspended eviction
\* resolve: the rest of performContextEviction runs.
EvictionCompletes(i) ==
    /\ york.pc = "ready"
    /\ i <= Len(york.evictions)
    /\ LET e == york.evictions[i]
           done == completeEviction(york, e)
       IN  york' = [done EXCEPT
                !.evictions = RemoveAt(@, i),
                !.returned = IF e.automatic THEN @ ELSE "Brain-Brain Cut complete",
                !.clean = ~e.appended]
    /\ UNCHANGED <<runVars, meshVars, planning, satellite, meshEvents, serviceVars>>

\* generateSummary, generateEmbedding or storeContextSlice rejects: the call
\* rejects before it touches the history, the slices or the counter.
EvictionFails(i) ==
    /\ york.pc = "ready"
    /\ i <= Len(york.evictions)
    /\ york' = [rejectEviction(york, york.evictions[i]) EXCEPT
            !.evictions = RemoveAt(@, i),
            !.returned = IF york.evictions[i].automatic THEN @ ELSE "rejected"]
    /\ UNCHANGED <<runVars, meshVars, planning, satellite, meshEvents, serviceVars>>

InitYork ==
    /\ MeshIdle
    /\ planning = PlanningIdle
    /\ satellite = SatelliteIdle
    /\ meshEvents = MeshEventsIdle
    /\ york = YorkReady
    /\ ServicesIdle

NextYork ==
    \/ \E tokenCount \in AllTokenCounts : AddConversationTurn(tokenCount)
    \/ PerformContextEviction
    \/ \E i \in 1..MaxEvictions : EvictionCompletes(i)
    \/ \E i \in 1..MaxEvictions : EvictionFails(i)

SpecYork == InitYork /\ [][NextYork]_vars

(***************************************************************************)
(* Properties of York.                                                     *)
(***************************************************************************)
\* What evaluateEviction() returns in the current state.
Decision == evaluateEviction(york.contextTokens, york.conversationHistory)

\* C17: evaluateEviction returns shouldEvict = TRUE exactly when
\* contextTokens / maxContextTokens >= 0.8, that is, with 4096 tokens, when
\* contextTokens >= 3277; then tokensToFree = contextTokens - 2048 and priority
\* is critical from 0.95 (3892 tokens), high from 0.9 (3687 tokens), medium
\* otherwise; when FALSE, tokensToFree = 0 and messagesToSummarize = 0.  The
\* decision a suspended eviction holds is the one of the counter it started at.
C17_EvaluateEvictionDecision ==
    york.pc = "ready" =>
        LET ct == york.contextTokens
        IN  /\ Decision.shouldEvict <=> ct * 10 >= 8 * 4096
            /\ Decision.shouldEvict <=> ct >= 3277
            /\ Decision.shouldEvict =>
                /\ Decision.tokensToFree = ct - 2048
                /\ Decision.priority = IF ct * 100 >= 95 * 4096 THEN "critical"
                                       ELSE IF ct * 10 >= 9 * 4096 THEN "high"
                                       ELSE "medium"
                /\ Decision.priority = "critical" <=> ct >= 3892
                /\ Decision.priority = "high" <=> (ct >= 3687 /\ ct < 3892)
            /\ ~Decision.shouldEvict =>
                /\ Decision.tokensToFree = 0
                /\ Decision.messagesToSummarize = 0
            /\ \A i \in DOMAIN york.evictions :
                LET d == york.evictions[i].decision
                IN  /\ d.shouldEvict
                    /\ d.tokensToFree >= 3277 - 2048
                    /\ d.priority \in {"critical", "high", "medium"}

\* 4000 tokens: shouldEvict with tokensToFree = 1952, and the eviction started.
C17_Witness ==
    /\ york.pc = "ready"
    /\ york.contextTokens = 4000
    /\ Decision.shouldEvict
    /\ Decision.tokensToFree = 1952
    /\ \E i \in DOMAIN york.evictions : york.evictions[i].decision.tokensToFree = 1952

\* C18: a performContextEviction called when the last eviction has completed and
\* no turn was appended since that eviction started returns the 'No eviction
\* needed' message, suspends nothing, creates no ContextSlice and leaves the
\* live history and the token counter as they were.
C18_EvictionIdempotent ==
    [][(york.pc = "ready" /\ york.clean /\ PerformContextEviction) =>
            /\ york'.returned = "No eviction needed"
            /\ york'.evictions = york.evictions
            /\ york'.contextSlices = york.contextSlices
            /\ york'.conversationHistory = york.conversationHistory
            /\ york'.contextTokens = york.contextTokens]_vars

\* The n oldest turns of the live history.
Oldest(n) == SubSeq(york.conversationHistory, 1, n)

\* C19: a performContextEviction that evicts removes from the live history
\* exactly the N oldest turns, N the least number of oldest turns whose token
\* counts sum to at least the tokensToFree of its decision, keeps the other
\* turns in their order, records those N turns in one ContextSlice and
\* decreases contextTokens by exactly the sum of their tokenCount.
C19_EvictsTheOldestTurns ==
    [][\A i \in 1..MaxEvictions :
        EvictionCompletes(i) =>
            LET decision == york.evictions[i].decision
                N == decision.messagesToSummarize
            IN  /\ N <= Len(york.conversationHistory)
                /\ SumTokens(Oldest(N)) >= decision.tokensToFree
                /\ SumTokens(Oldest(N - 1)) < decision.tokensToFree
                /\ york'.conversationHistory =
                        SubSeq(york.conversationHistory, N + 1,
                               Len(york.conversationHistory))
                /\ Len(york'.contextSlices) = Len(york.contextSlices) + 1
                /\ york'.contextSlices[Len(york'.contextSlices)].messages = Oldest(N)
                /\ york'.contextTokens = york.contextTokens - SumTokens(Oldest(N))]_vars

(***************************************************************************)
(* York when the summary, the embedding and the store never fail, and a    *)
(* suspended eviction whose awaits have resolved is resumed.               *)
(***************************************************************************)
NextYorkSucceeds ==
    \/ \E tokenCount \in AllTokenCounts : AddConversationTurn(tokenCount)
    \/ PerformContextEviction
    \/ \E i \in 1..MaxEvictions : EvictionCompletes(i)

LiveYork ==
    /\ InitYork
    /\ [][NextYorkSucceeds]_vars
    /\ WF_vars(\E i \in 1..MaxEvictions : EvictionCompletes(i))

\* contextTokens / maxContextTokens >= 0.8
OverThreshold == york.pc = "ready" /\ york.contextTokens * 10 >= 8 * 4096

\* C20: an addConversationTurn that leaves contextTokens / maxContextTokens >=
\* 0.8 has started a context eviction of its own, and, the summary, embedding
\* and store steps succeeding, usage eventually falls below 0.8.
C20_EvictionStartsAndUsageFalls ==
    /\ [][((\E tokenCount \in AllTokenCounts : AddConversationTurn(tokenCount))
            /\ york'.contextTokens * 10 >= 8 * 4096) =>
                /\ Len(york'.evictions) = Len(york.evictions) + 1
                /\ york'.evictions[Len(york'.evictions)].automatic
                /\ york'.evictions[Len(york'.evictions)].messagesToEvict # <<>>]_vars
    /\ OverThreshold ~> ~OverThreshold

\* An appended turn has left usage at 0.8 or more and its eviction is suspended.
C20_Witness ==
    /\ OverThreshold
    /\ \E i \in DOMAIN york.evictions :
            york.evictions[i].automatic /\ ~york.evictions[i].appended

\* C21: an eviction that completes with no other eviction suspended, no turn
\* appended since it started and the turns it decided on still the oldest of
\* the live history, from a counter equal to the sum of the live turns, leaves
\* contextTokens at no more than maxContextTokens * 0.5 = 2048.
C21_EvictionReachesTarget ==
    [][\A i \in 1..MaxEvictions :
        (/\ EvictionCompletes(i)
         /\ Len(york.evictions) = 1
         /\ ~york.evictions[i].appended
         /\ Len(york.evictions[i].messagesToEvict) <= Len(york.conversationHistory)
         /\ york.evictions[i].messagesToEvict = Oldest(Len(york.evictions[i].messagesToEvict))
         /\ york.contextTokens = SumTokens(york.conversationHistory)) =>
            /\ york'.contextTokens * 2 <= 4096
            /\ york'.contextTokens <= 2048]_vars

\* One eviction has run alone from a consistent counter and has completed.
C21_Witness ==
    /\ york.pc = "ready"
    /\ york.clean
    /\ york.evictions = <<>>
    /\ Len(york.contextSlices) = 1
    /\ york.contextSlices[1].originalTokenCount + york.contextTokens >= 3277
    /\ york.contextTokens = SumTokens(york.conversationHistory)
    /\ york.contextTokens > 0

(***************************************************************************)
(* Atlas: execute, executeToolWithRetry and the connection state.          *)
(***************************************************************************)
MaxExecutes == 3        \* Atlas.execute calls in one behaviour

maxRetries == 3

\* An error message, as the set of the texts analyzeErrorForRetry and
\* isParameterError look for that it contains.
ErrorTexts ==
    {"500", "502", "503", "timeout", "ETIMEDOUT", "ECONNREFUSED", "ENOTFOUND", "429",
     "rate limit", "400", "401", "403", "invalid parameter"}
\* The error messages of the model: one of the texts, or none of them
\* ('Unknown tool: x', 'Invalid expression: y').
ToolErrors == {{text} : text \in ErrorTexts} \cup {{}}

\* error.includes(text)
includes(error, text) == text \in error

analyzeErrorForRetry(error, attempt, max) ==
    IF attempt >= max THEN FALSE
    ELSE IF includes(error, "500") \/ includes(error, "502") \/ includes(error, "503")
    THEN TRUE
    ELSE IF includes(error, "timeout") \/ includes(error, "ETIMEDOUT") THEN TRUE
    ELSE IF includes(error, "ECONNREFUSED") \/ includes(error, "ENOTFOUND") THEN TRUE
    ELSE IF includes(error, "429") \/ includes(error, "rate limit") THEN TRUE
    ELSE IF includes(error, "400") \/ includes(error, "401") \/ includes(error, "403")
    THEN FALSE
    ELSE TRUE

parameterErrorPatterns ==
    {"invalid parameter", "missing required", "type error", "validation failed",
     "invalid argument"}

\* parameterErrorPatterns.some(p => error.toLowerCase().includes(p.toLowerCase()))
isParameterError(error) == \E p \in parameterErrorPatterns : includes(error, p)

\* MCPToolResult: what Atlas.callTool resolves with.  MCPBrowserClient.callTool
\* and executeBuiltInTool catch the errors of the tool and resolve with
\* success false and the error message; callTool does not reject.
NoToolError == [undefined |-> TRUE]
MCPToolResults ==
    {[success |-> TRUE, error |-> NoToolError]}
        \cup {[success |-> FALSE, error |-> e] : e \in ToolErrors}

NoToolExecutionResult == [undefined |-> TRUE]

\* executeToolWithRetry, the head of the while loop up to `await this.callTool`:
\* the loop is left when attempt > maxRetries, with the failure recorded.
attemptTool(a) ==
    IF a.attempt <= maxRetries
    THEN [a EXCEPT !.attempt = @ + 1, !.connectionState = "call", !.calls = @ + 1,
                   !.pc = "calling"]
    ELSE [a EXCEPT !.connectionState = "sleep", !.pc = "finished",
                   !.toolResult = [success |-> FALSE, error |-> a.lastError,
                                   attempts |-> a.attempt]]

\* Variant: a tool result with success false is retried as a thrown error is.
callToolResolvedRetrying(a, result) ==
    IF result.success
    THEN [a EXCEPT !.connectionState = "signal", !.pc = "finished",
                   !.toolResult = [success |-> TRUE, error |-> NoToolError,
                                   attempts |-> a.attempt]]
    ELSE attemptTool([a EXCEPT !.lastError = result.error])

\* executeToolWithRetry, the try block after `await this.callTool` resolved.
callToolResolved(a, result) ==
    [a EXCEPT !.connectionState = "signal", !.pc = "finished",
              !.toolResult = [success |-> result.success, error |-> result.error,
                              attempts |-> a.attempt]]

\* Atlas.execute after `await this.executeToolWithRetry(request)`.
toolExecuted(a) ==
    [a EXCEPT !.status = "completed", !.pc = "returned",
              !.result = IF a.toolResult.success THEN createSuccessResult
                         ELSE createFailureResult]

AtlasReady(connected) ==
    [pc |-> "idle", connected |-> connected,
     connectionState |-> IF connected THEN "signal" ELSE "sleep",
     status |-> "idle", attempt |-> 0, calls |-> 0, lastError |-> NoToolError,
     toolResult |-> NoToolExecutionResult, result |-> NoSatelliteResult, executes |-> 0,
     fixes |-> 0]

\* Atlas.execute(task) up to `await this.parseToolRequest(task.input)`.
AtlasExecute ==
    /\ atlas.pc \in {"idle", "returned"}
    /\ atlas.executes < MaxExecutes
    /\ atlas' = [atlas EXCEPT !.pc = "parsing", !.status = "executing",
                              !.executes = @ + 1, !.attempt = 0, !.calls = 0,
                              !.lastError = NoToolError, !.fixes = 0,
                              !.toolResult = NoToolExecutionResult,
                              !.result = NoSatelliteResult]
    /\ UNCHANGED <<runVars, meshVars, planning, satellite, meshEvents, york,
                   punkRecords, lilith>>

\* parseToolRequest settles: with a request (executeToolWithRetry starts its
\* first attempt), with null (the failure result is returned), or it rejects
\* (the catch block of execute).
ParseToolRequestSettles(outcome) ==
    /\ atlas.pc = "parsing"
    /\ atlas' = CASE outcome = "request" -> attemptTool(atlas)
                  [] outcome = "null" ->
                        [atlas EXCEPT !.pc = "returned", !.result = createFailureResult]
                  [] OTHER ->
                        [atlas EXCEPT !.pc = "returned", !.status = "error",
                                      !.result = createFailureResult]
    /\ UNCHANGED <<runVars, meshVars, planning, satellite, meshEvents, york,
                   punkRecords, lilith>>

\* callTool resolves: the try block of executeToolWithRetry, and the rest of
\* execute once executeToolWithRetry has finished.
CallToolResolves(result) ==
    /\ atlas.pc = "calling"
    /\ LET after == callToolResolved(atlas, result)
       IN  atlas' = IF after.pc = "finished" THEN toolExecuted(after) ELSE after
    /\ UNCHANGED <<runVars, meshVars, planning, satellite, meshEvents, york,
                   punkRecords, lilith>>

InitAtlas ==
    /\ MeshIdle
    /\ planning = PlanningIdle
    /\ satellite = SatelliteIdle
    /\ meshEvents = MeshEventsIdle
    /\ york = YorkIdle
    /\ punkRecords = PunkRecordsIdle
    /\ lilith = LilithIdle
    /\ \E connected \in BOOLEAN : atlas = AtlasReady(connected)

NextAtlas ==
    \/ AtlasExecute
    \/ \E outcome \in {"request", "null", "rejects"} : ParseToolRequestSettles(outcome)
    \/ \E result \in MCPToolResults : CallToolResolves(result)

\* The awaited parseToolRequest and callTool settle.
SpecAtlas ==
    /\ InitAtlas
    /\ [][NextAtlas]_vars
    /\ WF_vars(\E outcome \in {"request", "null", "rejects"} : ParseToolRequestSettles(outcome))
    /\ WF_vars(\E result \in MCPToolResults : CallToolResolves(result))

(***************************************************************************)
(* Properties of Atlas.                                                    *)
(***************************************************************************)
\* C22: executeToolWithRetry calls the tool at most maxRetries = 3 times for
\* one request, and an execute that has started comes to its return.
C22_BoundedAttemptsAndTermination ==
    /\ [](atlas.pc # "unused" => atlas.calls <= 3 /\ atlas.attempt <= 3)
    /\ (atlas.pc \in {"parsing", "calling"}) ~> (atlas.pc = "returned")

\* An attempt failed with a retryable error and executeToolWithRetry finished.
C22_Witness ==
    /\ atlas.pc = "returned"
    /\ atlas.calls >= 1
    /\ atlas.toolResult # NoToolExecutionResult
    /\ ~atlas.toolResult.success
    /\ atlas.toolResult.error = {"503"}

\* The texts by which analyzeErrorForRetry classifies an error.
RetriedTexts ==
    {"500", "502", "503", "timeout", "ETIMEDOUT", "ECONNREFUSED", "ENOTFOUND", "429",
     "rate limit"}
NotRetriedTexts == {"400", "401", "403"}

\* C23: while attempts remain, a failed tool attempt is followed by another
\* attempt exactly when its error is classified retryable: 5xx, timeout,
\* connection refused and rate limiting are retried, 400/401/403 are not, any
\* other error is retried.  So executeToolWithRetry has finished on a failed
\* attempt only if no attempt remained or the error is one of 400/401/403.
C23_RetryableErrorsAreRetried ==
    (/\ atlas.pc = "returned"
     /\ atlas.toolResult # NoToolExecutionResult
     /\ ~atlas.toolResult.success) =>
        LET error == atlas.toolResult.error
            attempt == atlas.toolResult.attempts
        IN  /\ ~(attempt < 3 /\ analyzeErrorForRetry(error, attempt, 3))
            /\ attempt < 3 =>
                /\ error \cap RetriedTexts = {}
                /\ error \cap NotRetriedTexts # {}

\* C24: every attempt starts with the connection state 'call'; when
\* executeToolWithRetry has finished the state is 'signal' exactly when the
\* tool execution succeeded and 'sleep' exactly when it failed; the state is
\* not 'call' once execute has returned.
C24_ConnectionStateTracksOutcome ==
    /\ atlas.pc = "calling" => atlas.connectionState = "call"
    /\ (atlas.pc = "returned" /\ atlas.toolResult # NoToolExecutionResult) =>
            /\ atlas.connectionState = "signal" <=> atlas.toolResult.success
            /\ atlas.connectionState = "sleep" <=> ~atlas.toolResult.success
    /\ atlas.pc = "returned" => atlas.connectionState # "call"

(***************************************************************************)
(* PunkRecords: addDocument, the persistent store and the two indices.     *)
(***************************************************************************)
MaxDocuments == 3       \* addDocument calls in one behaviour

\* One document per addDocument call: doc.id = uuidv4().
Documents == 1..MaxDocuments

\* getAllEmbeddings(): 'a workaround since Voy doesn't expose its internal
\* embeddings': returns [].
getAllEmbeddings(voyIndex) == {}

\* Variant: the indices are updated before the store is written.
putRejectedAfterIndexing(p, d) ==
    [p EXCEPT !.calls[d].pc = "rejected", !.flexIndex = @ \cup {d}]

\* `await this.db!.put('documents', doc)` rejects: addDocument rejects.
putRejected(p, d) ==
    [p EXCEPT !.calls[d].pc = "rejected"]

\* addDocument after `await this.db!.put('documents', doc)`: flexIndex.add(doc),
\* and when the document has an embedding the Voy index is rebuilt from
\* getAllEmbeddings() and the new entry.
putResolved(p, d) ==
    [p EXCEPT !.calls[d].pc = "resolved",
              !.db = @ \cup {d},
              !.flexIndex = @ \cup {d},
              !.voyIndex = IF p.calls[d].embedding
                           THEN getAllEmbeddings(@) \cup {d}
                           ELSE @]

PunkRecordsReady ==
    [pc |-> "documents", db |-> {}, flexIndex |-> {}, voyIndex |-> {},
     calls |-> [d \in Documents |-> [pc |-> "idle", embedding |-> FALSE]],
     deleted |-> {}]

\* addDocument(content, metadata, generateEmbedding) up to its first await:
\* generateEmbedding(content) when requested, the store write otherwise.
AddDocument(d, generateEmbedding) ==
    /\ punkRecords.pc = "documents"
    /\ punkRecords.calls[d].pc = "idle"
    /\ \A e \in 1..(d - 1) : punkRecords.calls[e].pc # "idle"
    /\ punkRecords' = [punkRecords EXCEPT
            !.calls[d].pc = IF generateEmbedding THEN "embedding" ELSE "storing"]
    /\ UNCHANGED <<runVars, meshVars, planning, satellite, meshEvents, york, atlas, lilith>>

\* generateEmbedding settles: the embedding is set, or the error is logged and
\* the document is stored without one.
EmbeddingSettles(d, generated) ==
    /\ punkRecords.pc = "documents"
    /\ punkRecords.calls[d].pc = "embedding"
    /\ punkRecords' = [punkRecords EXCEPT !.calls[d].pc = "storing",
                                         !.calls[d].embedding = generated]
    /\ UNCHANGED <<runVars, meshVars, planning, satellite, meshEvents, york, atlas, lilith>>

\* The store write settles.
PutSettles(d, stored) ==
    /\ punkRecords.pc = "documents"
    /\ punkRecords.calls[d].pc = "storing"
    /\ punkRecords' = IF stored THEN putResolved(punkRecords, d)
                      ELSE putRejected(punkRecords, d)
    /\ UNCHANGED <<runVars, meshVars, planning, satellite, meshEvents, york, atlas, lilith>>

InitDocs ==
    /\ MeshIdle
    /\ planning = PlanningIdle
    /\ satellite = SatelliteIdle
    /\ meshEvents = MeshEventsIdle
    /\ york = YorkIdle
    /\ atlas = AtlasIdle
    /\ lilith = LilithIdle
    /\ punkRecords = PunkRecordsReady

NextDocs ==
    \/ \E d \in Documents, generateEmbedding \in BOOLEAN : AddDocument(d, generateEmbedding)
    \/ \E d \in Documents, generated \in BOOLEAN : EmbeddingSettles(d, generated)
    \/ \E d \in Documents, stored \in BOOLEAN : PutSettles(d, stored)

SpecDocs == InitDocs /\ [][NextDocs]_vars

(***************************************************************************)
(* Properties of the document store.                                       *)
(***************************************************************************)
\* C25: the vector index has an entry for every stored document that has an
\* embedding.
C25_VectorIndexKeepsEveryDocument ==
    punkRecords.pc = "documents" =>
        \A d \in punkRecords.db :
            punkRecords.calls[d].embedding => d \in punkRecords.voyIndex

\* C27: when the store write of an addDocument fails the call rejects, the
\* document is in neither the keyword index nor the vector index, and the
\* failing step leaves both indices as they were.
C27_FailedWriteLeavesIndices ==
    /\ [](punkRecords.pc = "documents" =>
            \A d \in Documents :
                punkRecords.calls[d].pc = "rejected" =>
                    /\ d \notin punkRecords.flexIndex
                    /\ d \notin punkRecords.voyIndex
                    /\ d \notin punkRecords.db)
    /\ [][\A d \in Documents :
            PutSettles(d, FALSE) =>
                /\ punkRecords'.calls[d].pc = "rejected"
                /\ punkRecords'.flexIndex = punkRecords.flexIndex
                /\ punkRecords'.voyIndex = punkRecords.voyIndex]_vars

\* A store write has failed while the indices hold other documents.
C27_Witness ==
    /\ punkRecords.pc = "documents"
    /\ \E d \in Documents : punkRecords.calls[d].pc = "rejected"
    /\ punkRecords.flexIndex # {}
    /\ punkRecords.voyIndex # {}

(***************************************************************************)
(* Lilith: critique, calculateScore and approval.                          *)
(***************************************************************************)
MaxIssues == 5          \* issues found in one critique

\* issue.severity: the four severities of CritiqueIssue, and any other text the
\* analysis response may carry.
Severities == {"critical", "major", "minor", "info", "other"}

\* The switch of calculateScore.
Penalty(severity) ==
    CASE severity = "critical" -> 25
      [] severity = "major" -> 15
      [] severity = "minor" -> 5
      [] severity = "info" -> 1
      [] OTHER -> 0

RECURSIVE Penalties(_)
\* The penalties the loop of calculateScore subtracts.
Penalties(issues) ==
    IF issues = <<>> THEN 0 ELSE Penalty(Head(issues)) + Penalties(Tail(issues))

\* Variant: the score without the floor at 0.
calculateScoreUnbounded(issues) == 100 - Penalties(issues)

\* calculateScore(issues): Math.max(0, score)
calculateScore(issues) ==
    IF 100 - Penalties(issues) < 0 THEN 0 ELSE 100 - Penalties(issues)

\* critique.approved
approved(score, issues) ==
    score >= 70 /\ ~\E i \in DOMAIN issues : issues[i] = "critical"

LilithReady == [pc |-> "analysing", issues |-> <<>>, score |-> 0, approved |-> FALSE]

\* staticAnalysis, llmAnalysis or factCheck adds an issue.
IssueFound(severity) ==
    /\ lilith.pc = "analysing"
    /\ Len(lilith.issues) < MaxIssues
    /\ lilith' = [lilith EXCEPT !.issues = Append(@, severity)]
    /\ UNCHANGED <<runVars, meshVars, planning, satellite, meshEvents, york, atlas,
                   punkRecords>>

\* The analyses are done: the score and the approval of the critique.
CritiqueCompletes ==
    /\ lilith.pc = "analysing"
    /\ lilith' = [lilith EXCEPT
            !.pc = "critiqued",
            !.score = calculateScore(lilith.issues),
            !.approved = approved(calculateScore(lilith.issues), lilith.issues)]
    /\ UNCHANGED <<runVars, meshVars, planning, satellite, meshEvents, york, atlas,
                   punkRecords>>

InitCritique ==
    /\ MeshIdle
    /\ planning = PlanningIdle
    /\ satellite = SatelliteIdle
    /\ meshEvents = MeshEventsIdle
    /\ york = YorkIdle
    /\ atlas = AtlasIdle
    /\ punkRecords = PunkRecordsIdle
    /\ lilith = LilithReady

NextCritique ==
    \/ \E severity \in Severities : IssueFound(severity)
    \/ CritiqueCompletes

SpecCritique == InitCritique /\ [][NextCritique]_vars

\* The number of issues of a severity.
IssueCount(severity) ==
    Cardinality({i \in DOMAIN lilith.issues : lilith.issues[i] = severity})

\* C29: score = max(0, 100 - 25*#critical - 15*#major - 5*#minor - #info), and
\* approved exactly when score >= 70 and no issue is critical; one critical
\* and one minor issue give score 70 and approved = FALSE.
C29_ScoreAndApproval ==
    lilith.pc = "critiqued" =>
        LET raw == 100 - 25 * IssueCount("critical") - 15 * IssueCount("major")
                       - 5 * IssueCount("minor") - IssueCount("info")
        IN  /\ lilith.score = IF raw > 0 THEN raw ELSE 0
            /\ lilith.approved <=> (lilith.score >= 70 /\ IssueCount("critical") = 0)
            /\ (IssueCount("critical") = 1 /\ IssueCount("minor") = 1
                    /\ Len(lilith.issues) = 2) =>
                        (lilith.score = 70 /\ ~lilith.approved)

\* One critical and one minor issue: score 70, not approved.
C29_Witness ==
    /\ lilith.pc = "critiqued"
    /\ lilith.issues = <<"critical", "minor">>
    /\ lilith.score = 70
    /\ ~lilith.approved

(***************************************************************************)
(* processRequest from `await this.executePlan(plan)` on, for a plan whose *)
(* DAG is the Map createExecutionPlan built.                               *)
(***************************************************************************)
\* The mesh at `await this.executePlan(plan)` of its first request, plan_created
\* emitted.
InitExecuting(events) ==
    /\ \E n \in 0..MaxTasks, k \in 0..MaxEdges :
         \E odd \in 0..n, kind \in 1..2,
            e \in [1..k -> (1..n) \X {NodeId(i) : i \in 0..(n - 1)}] :
            /\ PlanningInputs(n, odd, kind, e)
            /\ builtPlan = createExecutionPlan(PlanningTasks(n, odd, kind, e),
                                               PlanningTasks(n, odd, kind, e))
    /\ plan = builtPlan
    /\ pc = "loop"
    /\ readyNodes = <<>>
    /\ executions = <<>>
    /\ results = <<>>
    /\ warned = FALSE
    /\ batchNo = 0
    /\ batchOf = [id \in DOMAIN plan.dag.nodes.entries |-> 0]
    /\ reached = [id \in DOMAIN plan.dag.nodes.entries |-> {}]
    /\ isProcessing = TRUE
    /\ activePlan = plan
    /\ conversation = addConversationTurn(<<>>, "user", 1)
    /\ call = [c \in Callers |-> IF c = 1 THEN "executing" ELSE "idle"]
    /\ planning = PlanningIdle
    /\ satellite = SatelliteIdle
    /\ meshEvents = events
    /\ york = YorkIdle
    /\ ServicesIdle

InitRespond == InitExecuting(MeshEventsIdle)

NextRespond ==
    \/ LoopIteration
    \/ \E p \in 1..MaxTasks, success \in BOOLEAN : ExecutionReturns(p, success)
    \/ \E p \in 1..MaxTasks : ExecutionRejects(p)
    \/ BatchResolves
    \/ BatchRejects
    \/ \E c \in Callers, critiqueApproved \in BOOLEAN, synthesized \in BOOLEAN :
            Settle(c, critiqueApproved, synthesized)

SpecRespond == InitRespond /\ [][NextRespond]_vars

\* Some satellite task of the run failed.
SomeTaskFailed == \E i \in DOMAIN results : ~results[i].success

\* C30: when executePlan has returned and a satellite task of the run failed,
\* a processRequest that resolves returns the answer with the quality note.
C30_FailedTaskGivesQualityNote ==
    [][\A c \in Callers :
        (/\ call[c] = "executing"
         /\ pc = "returned"
         /\ SomeTaskFailed
         /\ call'[c] = "resolved") =>
            conversation'[Len(conversation')].qualityNote]_vars

(***************************************************************************)
(* PunkRecords.chunkText.  A text is a sequence of characters; the default *)
(* separator is the two-character string "\n\n".                           *)
(***************************************************************************)
MaxTextLen == 5
MaxChunkSize == 3
MaxOverlap == 1

Chars == {"a", " ", "\n"}
Texts == UNION {[1..n -> Chars] : n \in 0..MaxTextLen}
separator == <<"\n", "\n">>

\* The smallest index at which sep occurs in s, 0 when it does not.
indexOf(s, sep) ==
    LET at == {i \in 1..(Len(s) - Len(sep) + 1) :
                    SubSeq(s, i, i + Len(sep) - 1) = sep}
    IN  IF at = {} THEN 0 ELSE CHOOSE i \in at : \A j \in at : i <= j

\* String.prototype.split with a non-empty separator.
RECURSIVE split(_, _)
split(s, sep) ==
    LET i == indexOf(s, sep)
    IN  IF i = 0 THEN <<s>>
        ELSE <<SubSeq(s, 1, i - 1)>>
                \o split(SubSeq(s, i + Len(sep), Len(s)), sep)

\* The word loop of chunkText over a segment longer than chunkSize.
RECURSIVE splitLongSegment(_, _, _)
splitLongSegment(st, words, chunkSize) ==
    IF words = <<>> THEN st
    ELSE LET word == Head(words)
             next ==
                IF Len(st.currentChunk) + 1 + Len(word) <= chunkSize
                THEN [st EXCEPT !.currentChunk =
                        (IF @ # <<>> THEN @ \o <<" ">> ELSE <<>>) \o word]
                ELSE [chunks |-> IF st.currentChunk # <<>>
                                 THEN Append(st.chunks, st.currentChunk)
                                 ELSE st.chunks,
                      currentChunk |-> word]
         IN  splitLongSegment(next, Tail(words), chunkSize)

\* The segment loop of chunkText.
RECURSIVE chunkSegments(_, _, _)
chunkSegments(st, segments, chunkSize) ==
    IF segments = <<>> THEN st
    ELSE LET segment == Head(segments)
             pushed == IF st.currentChunk # <<>>
                       THEN Append(st.chunks, st.currentChunk) ELSE st.chunks
             next ==
                IF Len(st.currentChunk) + Len(segment) <= chunkSize
                THEN [st EXCEPT !.currentChunk =
                        (IF @ # <<>> THEN @ \o separator ELSE <<>>) \o segment]
                ELSE IF Len(segment) > chunkSize
                THEN splitLongSegment([chunks |-> pushed, currentChunk |-> <<>>],
                                      split(segment, <<" ">>), chunkSize)
                ELSE [chunks |-> pushed, currentChunk |-> segment]
         IN  chunkSegments(next, Tail(segments), chunkSize)

\* String.prototype.slice(-n) for n > 0.
sliceLast(s, n) == IF Len(s) <= n THEN s ELSE SubSeq(s, Len(s) - n + 1, Len(s))

\* The overlap pass of chunkText.
overlappedChunks(chunks, chunkOverlap) ==
    IF chunkOverlap > 0 /\ Len(chunks) > 1
    THEN [i \in 1..Len(chunks) |->
            IF i > 1 THEN sliceLast(chunks[i - 1], chunkOverlap) \o <<" ">> \o chunks[i]
            ELSE chunks[i]]
    ELSE chunks

chunkText(text, chunkSize, chunkOverlap) ==
    LET st == chunkSegments([chunks |-> <<>>, currentChunk |-> <<>>],
                            split(text, separator), chunkSize)
        chunks == IF st.currentChunk # <<>>
                  THEN Append(st.chunks, st.currentChunk) ELSE st.chunks
    IN  overlappedChunks(chunks, chunkOverlap)

\* addDocumentWithChunking up to the chunks it stores.
AddDocumentWithChunking ==
    /\ punkRecords.pc = "content"
    /\ punkRecords' = [punkRecords EXCEPT
            !.pc = "chunked",
            !.chunks = chunkText(punkRecords.content, punkRecords.chunkSize,
                                 punkRecords.chunkOverlap)]
    /\ UNCHANGED <<runVars, meshVars, planning, satellite, meshEvents, york,
                   atlas, lilith>>

InitChunks ==
    /\ MeshIdle
    /\ planning = PlanningIdle
    /\ satellite = SatelliteIdle
    /\ meshEvents = MeshEventsIdle
    /\ york = YorkIdle
    /\ \E content \in Texts, chunkSize \in 1..MaxChunkSize,
          chunkOverlap \in 0..MaxOverlap :
            punkRecords = [pc |-> "content", content |-> content,
                           chunkSize |-> chunkSize,
                           chunkOverlap |-> chunkOverlap, chunks |-> <<>>]
    /\ atlas = AtlasIdle
    /\ lilith = LilithIdle

NextChunks == AddDocumentWithChunking

SpecChunks == InitChunks /\ [][NextChunks]_vars

\* The chunks, joined with a separator or a space between neighbours, give
\* the text.
RECURSIVE Rejoins(_, _)
Rejoins(chunks, text) ==
    IF chunks = <<>> THEN text = <<>>
    ELSE LET chunk == Head(chunks)
             rest == SubSeq(text, Len(chunk) + 1, Len(text))
         IN  /\ Len(chunk) <= Len(text)
             /\ SubSeq(text, 1, Len(chunk)) = chunk
             /\ IF Len(chunks) = 1 THEN rest = <<>>
                ELSE \/ /\ Len(rest) >= 1
                        /\ Head(rest) = " "
                        /\ Rejoins(Tail(chunks), Tail(rest))
                     \/ /\ Len(rest) >= Len(separator)
                        /\ SubSeq(rest, 1, Len(separator)) = separator
                        /\ Rejoins(Tail(chunks),
                                   SubSeq(rest, Len(separator) + 1, Len(rest)))

\* C28: without overlap every chunk of chunkText is at most chunkSize
\* characters long and the chunks rejoin to the original text.
C28_ChunksBoundedAndRejoin ==
    (punkRecords.pc = "chunked" /\ punkRecords.chunkOverlap = 0) =>
        /\ \A i \in DOMAIN punkRecords.chunks :
                Len(punkRecords.chunks[i]) <= punkRecords.chunkSize
        /\ Rejoins(punkRecords.chunks, punkRecords.content)

(***************************************************************************)
(* PunkRecords.search in hybrid mode.  Scores are exact rationals: a score *)
(* of a sub-search is counted in units of 1/(10 * RankScale), a weighted   *)
(* score in units of 1/(100 * RankScale); distances and semanticWeight are *)
(* given in tenths, the threshold in hundredths.                           *)
(***************************************************************************)
MaxSearchDocs == 3
MaxHits == 2
MaxLimit == 2

SearchDocs == 1..MaxSearchDocs
Distances == {0, 5}
SemanticWeights == {0, 7, 10}
Thresholds == {0, 30}
Limits == {1, MaxLimit}

RECURSIVE Factorial(_)
Factorial(n) == IF n <= 1 THEN 1 ELSE n * Factorial(n - 1)

\* Every score 1/n of keywordSearch is a whole number of 1/RankScale.
RankScale == Factorial(MaxHits)
ScoreOne == 10 * RankScale

\* The neighbours Voy may report: distinct documents, each with a distance.
Neighbors ==
    {n \in UNION {[1..k -> [id : SearchDocs, distance : Distances]] : k \in 0..MaxHits} :
        \A i, j \in DOMAIN n : n[i].id = n[j].id => i = j}

\* The embedding of the query and the search of the index succeed with some
\* neighbours, or one of them throws.
VoyOutcomes ==
    {[ok |-> TRUE, neighbors |-> n] : n \in Neighbors}
        \cup {[ok |-> FALSE, neighbors |-> <<>>]}

\* The documents FlexSearch may report, field after field.
FieldResults == UNION {[1..k -> SearchDocs] : k \in 0..MaxHits}

Take(s, n) == IF Len(s) <= n THEN s ELSE SubSeq(s, 1, n)

\* semanticSearch: [] when the embedding or the index fails; neighbours whose
\* document the database no longer holds are skipped.
RECURSIVE neighborResults(_, _)
neighborResults(neighbors, db) ==
    IF neighbors = <<>> THEN <<>>
    ELSE LET neighbor == Head(neighbors)
         IN  (IF neighbor.id \in db
              THEN <<[id |-> neighbor.id,
                      score |-> ScoreOne - neighbor.distance * RankScale,
                      matchType |-> "semantic"]>>
              ELSE <<>>) \o neighborResults(Tail(neighbors), db)

semanticSearch(p, limit) ==
    IF ~p.voy.ok THEN <<>>
    ELSE neighborResults(Take(p.voy.neighbors, limit), p.db)

\* keywordSearch: duplicates are skipped, the score is 1/(position).
RECURSIVE keywordResults(_, _)
keywordResults(searchResults, docs) ==
    IF docs = <<>> THEN searchResults
    ELSE keywordResults(
            IF \E i \in DOMAIN searchResults : searchResults[i].id = Head(docs)
            THEN searchResults
            ELSE Append(searchResults,
                        [id |-> Head(docs),
                         score |-> ScoreOne \div (Len(searchResults) + 1),
                         matchType |-> "keyword"]),
            Tail(docs))

keywordSearch(p, limit) == Take(keywordResults(<<>>, p.flex), limit)

\* The first loop of search: the Map in insertion order.
addSemanticResults(semanticResults, semanticWeight) ==
    [i \in DOMAIN semanticResults |->
        [id |-> semanticResults[i].id,
         score |-> semanticResults[i].score * semanticWeight,
         matchType |-> "hybrid"]]

\* The second loop with only its `if (existing)` branch.
RECURSIVE addKeywordResultsToExisting(_, _, _)
addKeywordResultsToExisting(combined, hits, keywordWeight) ==
    IF hits = <<>> THEN combined
    ELSE LET result == Head(hits)
         IN  addKeywordResultsToExisting(
                [i \in DOMAIN combined |->
                    IF combined[i].id = result.id
                    THEN [combined[i] EXCEPT !.score = @ + result.score * keywordWeight]
                    ELSE combined[i]],
                Tail(hits), keywordWeight)

\* The second loop of search.
RECURSIVE addKeywordResults(_, _, _)
addKeywordResults(combined, hits, keywordWeight) ==
    IF hits = <<>> THEN combined
    ELSE LET result == Head(hits)
             next ==
                IF \E i \in DOMAIN combined : combined[i].id = result.id
                THEN [i \in DOMAIN combined |->
                        IF combined[i].id = result.id
                        THEN [combined[i] EXCEPT !.score = @ + result.score * keywordWeight]
                        ELSE combined[i]]
                ELSE Append(combined, [id |-> result.id,
                                       score |-> result.score * keywordWeight,
                                       matchType |-> "hybrid"])
         IN  addKeywordResults(next, Tail(hits), keywordWeight)

RECURSIVE SelectSeqBy(_, _)
SelectSeqBy(s, threshold) ==
    IF s = <<>> THEN <<>>
    ELSE (IF Head(s).score >= threshold THEN <<Head(s)>> ELSE <<>>)
            \o SelectSeqBy(Tail(s), threshold)

\* Array.prototype.sort with (a, b) => b.score - a.score: stable, descending.
sortByScore(s) ==
    LET before(i) == {j \in DOMAIN s : \/ s[j].score > s[i].score
                                       \/ s[j].score = s[i].score /\ j < i}
    IN  [k \in DOMAIN s |-> s[CHOOSE i \in DOMAIN s : Cardinality(before(i)) = k - 1]]

\* filter, sort, slice.
rerank(combined, threshold, limit) ==
    Take(sortByScore(SelectSeqBy(combined, threshold * RankScale)), limit)

search(p) ==
    LET semanticResults == semanticSearch(p, p.limit * 2)
        hits == keywordSearch(p, p.limit * 2)
        keywordWeight == 10 - p.semanticWeight
    IN  rerank(addKeywordResults(addSemanticResults(semanticResults, p.semanticWeight),
                                 hits, keywordWeight),
               p.threshold, p.limit)

Search ==
    /\ punkRecords.pc = "query"
    /\ punkRecords' = [punkRecords EXCEPT !.pc = "searched", !.results = search(punkRecords)]
    /\ UNCHANGED <<runVars, meshVars, planning, satellite, meshEvents, york,
                   atlas, lilith>>

InitSearch ==
    /\ MeshIdle
    /\ planning = PlanningIdle
    /\ satellite = SatelliteIdle
    /\ meshEvents = MeshEventsIdle
    /\ york = YorkIdle
    /\ atlas = AtlasIdle
    /\ lilith = LilithIdle
    /\ \E voy \in VoyOutcomes, flex \in FieldResults,
          db \in {SearchDocs, SearchDocs \ {1}},
          limit \in Limits, threshold \in Thresholds,
          semanticWeight \in SemanticWeights :
            punkRecords = [pc |-> "query", voy |-> voy, flex |-> flex, db |-> db,
                           limit |-> limit, threshold |-> threshold,
                           semanticWeight |-> semanticWeight, results |-> <<>>]

NextSearch == Search

SpecSearch == InitSearch /\ [][NextSearch]_vars

\* The score a sub-search gives a document, 0 when it does not return it.
ScoreIn(hits, d) ==
    IF \E i \in DOMAIN hits : hits[i].id = d
    THEN hits[CHOOSE i \in DOMAIN hits : hits[i].id = d].score
    ELSE 0

Ids(hits) == {hits[i].id : i \in DOMAIN hits}

SemanticHits == semanticSearch(punkRecords, punkRecords.limit * 2)
KeywordHits == keywordSearch(punkRecords, punkRecords.limit * 2)

\* The weighted sum of both sub-search scores of a document.
HybridScore(d) ==
    ScoreIn(SemanticHits, d) * punkRecords.semanticWeight
        + ScoreIn(KeywordHits, d) * (10 - punkRecords.semanticWeight)

\* Fewer than limit other documents meet the threshold with a score at least
\* that of d.
RanksWithinLimit(d) ==
    Cardinality({e \in (Ids(SemanticHits) \cup Ids(KeywordHits)) \ {d} :
                    /\ HybridScore(e) >= punkRecords.threshold * RankScale
                    /\ HybridScore(e) >= HybridScore(d)}) < punkRecords.limit

Returned(d) ==
    \E i \in DOMAIN punkRecords.results :
        /\ punkRecords.results[i].id = d
        /\ punkRecords.results[i].matchType = "hybrid"
        /\ punkRecords.results[i].score = HybridScore(d)

KeywordOnly == Ids(KeywordHits) \ Ids(SemanticHits)

Eligible(d) ==
    /\ HybridScore(d) >= punkRecords.threshold * RankScale
    /\ RanksWithinLimit(d)

\* C26 as stated: a keyword-only document that meets the threshold and ranks
\* within limit is returned as 'hybrid' with the nonzero score
\* keywordScore * (1 - semanticWeight); an empty keyword result removes no
\* semantic hit.
C26_AsStated ==
    punkRecords.pc = "searched" =>
        /\ \A d \in KeywordOnly :
                Eligible(d) => Returned(d) /\ HybridScore(d) > 0
        /\ KeywordHits = <<>> =>
                \A d \in Ids(SemanticHits) : Eligible(d) => Returned(d)

\* C26: a keyword-only document that meets the threshold and ranks within
\* limit is returned as 'hybrid' with the score
\* keywordScore * (1 - semanticWeight), which is nonzero when semanticWeight
\* is below 1; an empty keyword result removes no semantic hit.
C26_KeywordOnlyHitIsKept ==
    punkRecords.pc = "searched" =>
        /\ \A d \in KeywordOnly :
                Eligible(d) =>
                    /\ Returned(d)
                    /\ punkRecords.semanticWeight < 10 => HybridScore(d) > 0
        /\ KeywordHits = <<>> =>
                \A d \in Ids(SemanticHits) : Eligible(d) => Returned(d)

\* A keyword-only hit returned while the semantic search failed, and one
\* returned next to semantic hits.
C26_Witness ==
    /\ punkRecords.pc = "searched"
    /\ ~punkRecords.voy.ok
    /\ punkRecords.semanticWeight = 7
    /\ \E d \in KeywordOnly : Eligible(d) /\ Returned(d) /\ HybridScore(d) > 0

(***************************************************************************)
(* York with clearContext.                                                 *)
(***************************************************************************)
\* clearContext(): the history, the slices and the counter are reset; the
\* evictions suspended at an await are not cancelled.
ClearContext ==
    /\ york.pc = "ready"
    /\ york.conversationHistory # <<>> \/ york.contextSlices # <<>>
    /\ york' = [york EXCEPT
            !.conversationHistory = <<>>,
            !.contextSlices = <<>>,
            !.contextTokens = 0,
            !.clean = FALSE,
            !.evictions = [i \in DOMAIN @ |-> [@[i] EXCEPT !.appended = TRUE]]]
    /\ UNCHANGED <<runVars, meshVars, planning, satellite, meshEvents, serviceVars>>

NextYorkClear ==
    \/ \E tokenCount \in AllTokenCounts : AddConversationTurn(tokenCount)
    \/ PerformContextEviction
    \/ \E i \in 1..MaxEvictions : EvictionCompletes(i)
    \/ \E i \in 1..MaxEvictions : EvictionFails(i)
    \/ ClearContext

SpecYorkClear == InitYork /\ [][NextYorkClear]_vars

\* C33: contextTokens is never negative and, whenever no eviction is suspended,
\* equals the sum of tokenCount over the live conversation history.
C33_ContextTokensConsistent ==
    york.pc = "ready" =>
        /\ york.contextTokens >= 0
        /\ york.evictions = <<>> =>
                york.contextTokens = SumTokens(york.conversationHistory)

\* The ids of the turns of a sequence of turns.
TurnIds(turns) == {turns[i].id : i \in DOMAIN turns}

\* C34: every turn removed from the live history is contained in the messages
\* of exactly one stored ContextSlice.
C34_RemovedTurnsInExactlyOneSlice ==
    york.pc = "ready" =>
        \A id \in 1..york.turns :
            id \notin TurnIds(york.conversationHistory) =>
                Cardinality({k \in DOMAIN york.contextSlices :
                                id \in TurnIds(york.contextSlices[k].messages)}) = 1

\* C37: a performContextEviction whose summary, embedding or store fails
\* leaves the live history, contextTokens and the in-memory slice list as they
\* were.
C37_FailedEvictionChangesNothing ==
    [][\A i \in 1..MaxEvictions :
        EvictionFails(i) =>
            /\ york'.conversationHistory = york.conversationHistory
            /\ york'.contextTokens = york.contextTokens
            /\ york'.contextSlices = york.contextSlices]_vars

\* A manually triggered eviction has rejected while turns and a slice exist.
C37_Witness ==
    /\ york.pc = "ready"
    /\ york.returned = "rejected"
    /\ york.conversationHistory # <<>>
    /\ york.contextSlices # <<>>

(***************************************************************************)
(* The argument repair of executeToolWithRetry.  atlas.fixes counts the    *)
(* calls of attemptParameterFix of the current request; the only call is   *)
(* in the catch block of executeToolWithRetry.                             *)
(***************************************************************************)
\* C31: after a failed tool attempt attemptParameterFix is called exactly
\* once, and the next attempt follows, if the error is retryable while
\* attempts remain and matches a parameter-error phrase; it is not called for
\* any other error, after the final attempt or after a non-retryable error.
C31_OneRepairBeforeNextAttempt ==
    [][\A result \in MCPToolResults :
        (CallToolResolves(result) /\ ~result.success) =>
            IF /\ analyzeErrorForRetry(result.error, atlas.attempt, 3)
               /\ isParameterError(result.error)
            THEN /\ atlas'.fixes = atlas.fixes + 1
                 /\ atlas'.pc = "calling"
                 /\ atlas'.attempt = atlas.attempt + 1
            ELSE atlas'.fixes = atlas.fixes]_vars

(***************************************************************************)
(* The metrics of a satellite result: BaseSatellite.generate and           *)
(* getCurrentMetrics, with Pythagoras.research as the task.  calls and     *)
(* reported count the Text-Generator calls answered for the task being     *)
(* executed and the total tokens their responses reported.                 *)
(***************************************************************************)
MaxResearches == 2      \* tasks run on one Pythagoras
MaxBatches == 2         \* batches of sources analyzeSources works through

\* response.usage.totalTokens; 0 when the response has no usage.
Usages == {0, 100, 250}

\* generate(): the usage of the response is added to state.tokensUsed.
generate(s, usage) ==
    [s EXCEPT !.state.tokensUsed = @ + usage,
              !.calls = @ + 1, !.reported = @ + usage]

\* tokensUsed and iterationCount of getCurrentMetrics()
getCurrentMetrics(s) ==
    [tokensUsed |-> s.state.tokensUsed, iterationCount |-> s.state.iterations]

\* Pythagoras.execute: updateState({status, currentTask, startTime}) keeps the
\* other fields of the state.
PythagorasExecute ==
    /\ satellite.pc \in {"created", "resulted"}
    /\ satellite.researches < MaxResearches
    /\ satellite' = [satellite EXCEPT !.pc = "expandQuery", !.researches = @ + 1,
                                      !.calls = 0, !.reported = 0, !.batches = 0,
                                      !.findings = FALSE]
    /\ UNCHANGED <<runVars, meshVars, planning, meshEvents, york, serviceVars>>

\* expandQuery: generate, then this.state.iterations++.
ExpandQuery(usage) ==
    /\ satellite.pc = "expandQuery"
    /\ satellite' = [generate(satellite, usage) EXCEPT
                        !.state.iterations = @ + 1, !.pc = "analyzeSources"]
    /\ UNCHANGED <<runVars, meshVars, planning, meshEvents, york, serviceVars>>

\* One batch of analyzeSources: generate, then this.state.iterations++.
AnalyzeBatch(usage, found) ==
    /\ satellite.pc = "analyzeSources"
    /\ satellite.batches < MaxBatches
    /\ satellite' = [generate(satellite, usage) EXCEPT
                        !.state.iterations = @ + 1, !.batches = @ + 1,
                        !.findings = @ \/ found]
    /\ UNCHANGED <<runVars, meshVars, planning, meshEvents, york, serviceVars>>

\* synthesize, with a generate when there are findings, and the success
\* result of execute with the current metrics.
Synthesize(usage) ==
    /\ satellite.pc = "analyzeSources"
    /\ LET s1 == IF satellite.findings THEN generate(satellite, usage) ELSE satellite
       IN  satellite' = [s1 EXCEPT !.pc = "resulted",
                                   !.metrics = getCurrentMetrics(s1)]
    /\ UNCHANGED <<runVars, meshVars, planning, meshEvents, york, serviceVars>>

\* The Text Generator rejects: the catch block of execute returns the failure
\* result with the current metrics.
GenerateRejects ==
    /\ satellite.pc \in {"expandQuery", "analyzeSources"}
    /\ satellite' = [satellite EXCEPT !.pc = "resulted",
                                      !.metrics = getCurrentMetrics(satellite)]
    /\ UNCHANGED <<runVars, meshVars, planning, meshEvents, york, serviceVars>>

InitMetrics ==
    /\ MeshIdle
    /\ planning = PlanningIdle
    /\ meshEvents = MeshEventsIdle
    /\ york = YorkIdle
    /\ ServicesIdle
    /\ satellite = [pc |-> "created", state |-> [iterations |-> 0, tokensUsed |-> 0],
                    researches |-> 0, calls |-> 0, reported |-> 0, batches |-> 0,
                    findings |-> FALSE,
                    metrics |-> [tokensUsed |-> 0, iterationCount |-> 0]]

NextMetrics ==
    \/ PythagorasExecute
    \/ \E usage \in Usages : ExpandQuery(usage)
    \/ \E usage \in Usages, found \in BOOLEAN : AnalyzeBatch(usage, found)
    \/ \E usage \in Usages : Synthesize(usage)
    \/ GenerateRejects

SpecMetrics == InitMetrics /\ [][NextMetrics]_vars

\* C32: the metrics of a result count the Text-Generator calls made while
\* executing its task and sum the total tokens those calls reported, for the
\* first and for every later task of a satellite.
C32_MetricsCountTheTaskCalls ==
    satellite.pc = "resulted" =>
        /\ satellite.metrics.iterationCount = satellite.calls
        /\ satellite.metrics.tokensUsed = satellite.reported

\* C35: the DAG processRequest parses from the output of Shaka.execute has the
\* same node ids, statuses and dependency/dependent edges as the DAG
\* createExecutionPlan built, and its nodes are the Map that isDAGComplete and
\* getReadyTasks iterate.
C35_PlanSurvivesHandOff ==
    (plan # NoPlan /\ builtPlan # NoPlan) =>
        /\ plan.dag.nodes.isMap
        /\ plan.dag.nodes.order = builtPlan.dag.nodes.order
        /\ plan.dag.nodes.entries = builtPlan.dag.nodes.entries

\* C36: when a processRequest call settles and releases the processing flag,
\* no satellite execution dispatched by its run is still in flight.
C36_NoExecutionInFlightAtRelease ==
    [][\A c \in Callers :
        (/\ call[c] = "executing"
         /\ call'[c] \in {"resolved", "failed"}
         /\ ~isProcessing') =>
            \A p \in DOMAIN executions : executions[p].state # "pending"]_vars

(***************************************************************************)
(* PunkRecords.deleteDocument and what the searches can return after it.   *)
(***************************************************************************)
\* deleteDocument(id) after `await this.db!.delete('documents', id)`: the
\* database entry is gone; flexIndex and voyIndex are not touched.
deleteDocument(p, d) ==
    [p EXCEPT !.db = @ \ {d}, !.deleted = @ \cup {d}]

DeleteDocument(d) ==
    /\ punkRecords.pc = "documents"
    /\ d \in punkRecords.db
    /\ punkRecords' = deleteDocument(punkRecords, d)
    /\ UNCHANGED <<runVars, meshVars, planning, satellite, meshEvents, york, atlas, lilith>>

NextDelete ==
    \/ \E d \in Documents, generateEmbedding \in BOOLEAN : AddDocument(d, generateEmbedding)
    \/ \E d \in Documents, generated \in BOOLEAN : EmbeddingSettles(d, generated)
    \/ \E d \in Documents, stored \in BOOLEAN : PutSettles(d, stored)
    \/ \E d \in Documents : DeleteDocument(d)

SpecDelete == InitDocs /\ [][NextDelete]_vars

\* getDocument(id): this.db.get('documents', id)
getDocument(p, d) == IF d \in p.db THEN d ELSE 0

\* The documents keywordSearch can return for some query: result.doc of the
\* documents FlexSearch has stored.
keywordSearchable(p) == p.flexIndex

\* The documents semanticSearch can return for some query: the neighbours of
\* the Voy index that this.db.get finds.
semanticSearchable(p) == p.voyIndex \cap p.db

\* C38: after deleteDocument(id) has completed, getDocument(id) returns
\* undefined and neither keywordSearch nor semanticSearch nor the hybrid search
\* (which merges the two) can return the document.
C38_DeletedDocumentIsGone ==
    punkRecords.pc = "documents" =>
        \A d \in punkRecords.deleted :
            /\ getDocument(punkRecords, d) = 0
            /\ d \notin semanticSearchable(punkRecords)
            /\ d \notin keywordSearchable(punkRecords)

(***************************************************************************)
(* The order of the mesh events of a request.                              *)
(***************************************************************************)
\* An execution left in flight by a settled processRequest returns:
\* markTaskComplete on the plan of that request, then task_completed.
InFlightReturns(k) ==
    /\ meshEvents.pc = "recording"
    /\ k \in 1..Len(meshEvents.inFlight)
    /\ meshEvents' = [meshEvents EXCEPT
            !.events = Append(@, MeshEvent("task_completed", meshEvents.inFlight[k])),
            !.inFlight = RemoveAt(@, k)]
    /\ UNCHANGED <<runVars, meshVars, planning, satellite, york, serviceVars>>

InitOrder ==
    InitExecuting([pc |-> "recording",
                   events |-> <<MeshEvent("plan_created", "")>>,
                   inFlight |-> <<>>])

NextOrder ==
    \/ \E c \in Callers : ProcessRequest(c)
    \/ LoopIteration
    \/ \E p \in 1..MaxTasks, success \in BOOLEAN : ExecutionReturns(p, success)
    \/ \E p \in 1..MaxTasks : ExecutionRejects(p)
    \/ BatchResolves
    \/ BatchRejects
    \/ \E c \in Callers, critiqueApproved \in BOOLEAN, synthesized \in BOOLEAN :
            Settle(c, critiqueApproved, synthesized)
    \/ \E k \in 1..MaxTasks : InFlightReturns(k)

SpecOrder == InitOrder /\ [][NextOrder]_vars

\* The positions of the log at which an event of one of the types stands.
EventsOf(types) ==
    {i \in DOMAIN meshEvents.events : meshEvents.events[i].type \in types}

\* C39: plan_created comes before every task_started; each task_completed
\* has the task_started of its node before it; all_complete or error is
\* emitted at most once, after every task event, and exactly once, of the
\* kind of the outcome, when the call has settled; a call rejected as already
\* processing emits nothing.
C39_MeshEventOrder ==
    /\ [](meshEvents.pc = "recording" =>
        LET events == meshEvents.events
        IN  /\ \A i \in EventsOf({"task_started"}) :
                    \E j \in EventsOf({"plan_created"}) : j < i
            /\ \A i \in EventsOf({"task_completed"}) :
                    \E j \in EventsOf({"task_started"}) :
                        j < i /\ events[j].nodeId = events[i].nodeId
            /\ Cardinality(EventsOf({"all_complete", "error"})) <= 1
            /\ \A i \in EventsOf({"all_complete", "error"}) :
                    \A j \in EventsOf({"task_started", "task_completed"}) : j < i
            /\ call[1] = "resolved" => EventsOf({"all_complete"}) # {}
            /\ call[1] = "failed" => EventsOf({"error"}) # {}
            /\ call[1] = "executing" => EventsOf({"all_complete", "error"}) = {})
    /\ [][\A c \in Callers :
            (call[c] = "idle" /\ call'[c] = "busy") => meshEvents' = meshEvents]_vars

(***************************************************************************)
(* MCPBrowserClient.connect, the client Atlas owns.  attempts counts the   *)
(* connection attempts of the top-level connect() call under way or last   *)
(* settled; exhausted tells that an earlier call used up its retries.      *)
(***************************************************************************)
MaxConnects == 5        \* top-level connect() calls in one behaviour

clientMaxRetries == 3

MCPClientReady ==
    [pc |-> "client", connectionStatus |-> "disconnected", retryCount |-> 0,
     call |-> "none", attempts |-> 0, connects |-> 0, exhausted |-> FALSE]

\* connect() up to `await this.client.connect(this.transport)`: it returns at
\* once when connected, and starts an attempt otherwise.
connect(m) ==
    IF m.connectionStatus = "connected" THEN [m EXCEPT !.call = "returned"]
    ELSE [m EXCEPT !.connectionStatus = "connecting", !.call = "connecting",
                   !.attempts = @ + 1]

\* The try block ran to its end.
connected(m) ==
    [m EXCEPT !.connectionStatus = "connected", !.retryCount = 0, !.call = "returned"]

\* The catch block: the status is 'error'; while retryCount < maxRetries the
\* counter is incremented and, after the delay, connect() is called again;
\* otherwise the error is thrown.
connectFailed(m) ==
    LET failed == [m EXCEPT !.connectionStatus = "error"]
    IN  IF failed.retryCount < clientMaxRetries
        THEN connect([failed EXCEPT !.retryCount = @ + 1])
        ELSE [failed EXCEPT !.call = "threw", !.exhausted = TRUE]

\* A top-level connect() call.
Connect ==
    /\ atlas.pc = "client"
    /\ atlas.call # "connecting"
    /\ atlas.connects < MaxConnects
    /\ atlas' = connect([atlas EXCEPT !.connects = @ + 1, !.attempts = 0])
    /\ UNCHANGED <<runVars, meshVars, planning, satellite, meshEvents, york,
                   punkRecords, lilith>>

\* The connection attempt settles.
ConnectSettles(ok) ==
    /\ atlas.pc = "client"
    /\ atlas.call = "connecting"
    /\ atlas' = IF ok THEN connected(atlas) ELSE connectFailed(atlas)
    /\ UNCHANGED <<runVars, meshVars, planning, satellite, meshEvents, york,
                   punkRecords, lilith>>

\* disconnect() with a transport that closes.
Disconnect ==
    /\ atlas.pc = "client"
    /\ atlas.call \in {"returned", "threw"}
    /\ atlas.connectionStatus # "disconnected"
    /\ atlas' = [atlas EXCEPT !.connectionStatus = "disconnected"]
    /\ UNCHANGED <<runVars, meshVars, planning, satellite, meshEvents, york,
                   punkRecords, lilith>>

InitClient ==
    /\ MeshIdle
    /\ planning = PlanningIdle
    /\ satellite = SatelliteIdle
    /\ meshEvents = MeshEventsIdle
    /\ york = YorkIdle
    /\ punkRecords = PunkRecordsIdle
    /\ lilith = LilithIdle
    /\ atlas = MCPClientReady

NextClient ==
    \/ Connect
    \/ \E ok \in BOOLEAN : ConnectSettles(ok)
    \/ Disconnect

SpecClient == InitClient /\ [][NextClient]_vars

\* C40: a top-level connect() on a client that is not connected makes at most
\* maxRetries + 1 = 4 attempts before it throws, and makes all 4 before it
\* throws, also after an earlier connect() exhausted its retries; after a
\* successful connect the status is 'connected' and the retry counter is 0.
C40_FreshRetryBudget ==
    atlas.pc = "client" =>
        /\ atlas.attempts <= 4
        /\ atlas.call = "threw" => atlas.attempts = 4
        /\ (atlas.call = "returned" /\ atlas.attempts > 0) =>
                \/ atlas.connectionStatus = "connected" /\ atlas.retryCount = 0
                \/ atlas.connectionStatus = "disconnected"

====
